---- MODULE Spec2Model ----
(***************************************************************************)
(* The normalisation / persistence layer of the UBIKAIS crawler            *)
(* (src/ubikais-crawler/ubikais_database.py): the coordinate parser, the   *)
(* record mappers and the INSERT OR REPLACE store.                         *)
(***************************************************************************)
EXTENDS Integers, Sequences, FiniteSets, TLC

(***************************************************************************)
(* Values.  A Python str is a sequence of one-character strings; the other *)
(* values an upstream JSON record can hold are one-element sequences whose *)
(* single token starts with "#", so that any two values can be compared.   *)
(***************************************************************************)
NONE == <<"#None">>
EMPTY == <<>>
INT0 == <<"#int0">>
OBJ == <<"#dict">>
UNSET == <<"#unset">>
\* a value that may also be None: None is NONE, anything else is wrapped
Some(x) == <<"#some", x>>
The(v) == v[2]

Real(n) == <<"#real", ToString(n)>>

IsReal(v) == Len(v) = 2 /\ v[1] = "#real"
IsStr(v) == v \notin {NONE, INT0, OBJ, UNSET} /\ ~IsReal(v)

\* Python truth value of a value: None, '' and 0 are false.
Truthy(v) == v \notin {NONE, EMPTY, INT0}

\* Python "a or b": a when a is true, b otherwise (whatever b is).
PyOr(a, b) == IF Truthy(a) THEN a ELSE b

\* dict.get(k): the value under k, None when k is missing.
Get(d, k) == IF k \in DOMAIN d THEN d[k] ELSE NONE

(***************************************************************************)
(* Bounds of the model.                                                    *)
(***************************************************************************)
\* fraction digits of the numeric literals that are parsed
MaxFrac == 2
\* "-"-separated components of the generated coordinate strings
MaxParts == 3
\* length of the free-form coordinate strings
MaxLen == 3

RECURSIVE Pow10(_)
Pow10(n) == IF n = 0 THEN 1 ELSE 10 * Pow10(n - 1)

(***************************************************************************)
(* str helpers and float().  Numbers carry MaxFrac fraction digits: the    *)
(* number x is the integer x * 10^MaxFrac; a coordinate in degrees is the  *)
(* integer degrees * 3600 * 10^MaxFrac (exact where Python rounds).        *)
(***************************************************************************)
Digits == <<"0", "1", "2", "3", "4", "5", "6", "7", "8", "9">>
IsDigit(c) == \E i \in 1..10 : Digits[i] = c
DigitVal(c) == (CHOOSE i \in 1..10 : Digits[i] = c) - 1
AllDigits(s) == \A i \in 1..Len(s) : IsDigit(s[i])

RECURSIVE DigitsVal(_)
DigitsVal(s) ==
    IF s = <<>> THEN 0
    ELSE 10 * DigitsVal(SubSeq(s, 1, Len(s) - 1)) + DigitVal(s[Len(s)])

Contains(s, c) == \E i \in 1..Len(s) : s[i] = c
IndexOf(s, c) ==
    IF Contains(s, c)
    THEN CHOOSE i \in 1..Len(s) : s[i] = c /\ \A j \in 1..(i - 1) : s[j] # c
    ELSE 0

\* str.split(sep): always at least one part.
RECURSIVE Split(_, _)
Split(s, sep) ==
    LET i == IndexOf(s, sep)
    IN  IF i = 0 THEN <<s>>
        ELSE <<SubSeq(s, 1, i - 1)>> \o Split(SubSeq(s, i + 1, Len(s)), sep)

Failed == [ok |-> FALSE, val |-> 0]

\* float() of an unsigned literal: digits, at most one ".", at least one digit.
UnsignedFloat(s) ==
    LET dot == IndexOf(s, ".")
        ip == IF dot = 0 THEN s ELSE SubSeq(s, 1, dot - 1)
        fp == IF dot = 0 THEN <<>> ELSE SubSeq(s, dot + 1, Len(s))
    IN  IF AllDigits(ip) /\ AllDigits(fp) /\ Len(ip) + Len(fp) > 0 /\ Len(fp) <= MaxFrac
        THEN [ok |-> TRUE,
              val |-> DigitsVal(ip) * Pow10(MaxFrac) + DigitsVal(fp) * Pow10(MaxFrac - Len(fp))]
        ELSE Failed

\* float(s): ok = FALSE where Python raises (TypeError for a non-str that is
\* not a number, ValueError for a str that is no numeric literal).
PyFloat(s) ==
    IF ~IsStr(s) \/ s = <<>> THEN Failed
    ELSE IF s[1] = "-"
         THEN LET u == UnsignedFloat(Tail(s)) IN [ok |-> u.ok, val |-> 0 - u.val]
    ELSE IF s[1] = "+" THEN UnsignedFloat(Tail(s))
    ELSE UnsignedFloat(s)

\* UBIKAISDatabase._parse_coordinate: a Real in units of 1/(3600 * 10^MaxFrac)
\* degree, or NONE.
parse_coordinate(coord_str) ==
    IF ~Truthy(coord_str) THEN NONE
    ELSE IF ~IsStr(coord_str) THEN NONE
    ELSE IF Contains(coord_str, "-")
         THEN LET direction == coord_str[1]
                  parts == Split(Tail(coord_str), "-")
                  degrees == PyFloat(parts[1])
                  minutes == IF Len(parts) > 1 THEN PyFloat(parts[2])
                             ELSE [ok |-> TRUE, val |-> 0]
                  seconds == IF Len(parts) > 2 THEN PyFloat(parts[3])
                             ELSE [ok |-> TRUE, val |-> 0]
                  decimal == degrees.val * 3600 + minutes.val * 60 + seconds.val
              IN  IF degrees.ok /\ minutes.ok /\ seconds.ok
                  THEN Real(IF direction \in {"S", "W"} THEN 0 - decimal ELSE decimal)
                  ELSE NONE
    ELSE LET f == PyFloat(coord_str)
         IN  IF f.ok THEN Real(f.val * 3600) ELSE NONE

(***************************************************************************)
(* Coordinate strings handed to the parser.                                *)
(***************************************************************************)
RECURSIVE Join(_, _)
Join(parts, sep) ==
    IF Len(parts) = 0 THEN <<>>
    ELSE IF Len(parts) = 1 THEN parts[1]
    ELSE parts[1] \o <<sep>> \o Join(Tail(parts), sep)

SeqsUpTo(S, n) == UNION {[1..k -> S] : k \in 0..n}

Hemispheres == {<<"N">>, <<"S">>, <<"E">>, <<"W">>}
Prefixes == Hemispheres \cup {<<>>, <<"-">>, <<"X">>}
NumericTokens ==
    {<<"3", "7">>, <<"2", "7">>, <<"4", "5">>, <<"0">>,
     <<"3", "7", ".", "5">>, <<"1", "2", "9", ".", "3", "5">>}
Tokens == NumericTokens \cup {<<>>, <<"x">>}
Alphabet == {"N", "S", "-", ".", "3", "7", "x"}

StructuredCoords ==
    {p \o Join(c, "-") : p \in Prefixes, c \in SeqsUpTo(Tokens, MaxParts) \ {<<>>}}
CoordInputs ==
    StructuredCoords \cup SeqsUpTo(Alphabet, MaxLen) \cup {NONE, INT0, OBJ}

(***************************************************************************)
(* json.dumps and timestamps.  A dict is a function from its keys to       *)
(* values; its items are serialised in the order of KeyOrder, which lists  *)
(* every upstream key the model's records carry.                           *)
(***************************************************************************)
Time(t) == <<"#time", ToString(t)>>
Date(d) == <<"#date", ToString(d)>>
Num(n) == <<"#num", ToString(n)>>

KeyOrder ==
    <<"notamId", "notamNo", "snowtamId", "id", "icao", "icaoCode", "rwyId", "runwayId",
      "navaidId", "obstId", "callsign", "acid", "airport", "ad", "obsTime", "time",
      "eobt", "std", "direction", "rwyDir", "type", "notamType", "series", "name",
      "depth", "latitude", "lat", "length", "lengthM", "surface", "reg", "route",
      "rawMetar", "metar", "orgMsg", "windSpeed", "ws", "clouds">>

JsonValue(v) ==
    IF v = NONE THEN <<"null">>
    ELSE IF v = INT0 THEN <<"0">>
    ELSE IF v = OBJ THEN <<"{", "\"", "k", "\"", ":", "1", "}">>
    ELSE <<"\"">> \o v \o <<"\"">>

JsonItem(d, k) == <<"\"", k, "\"", ":">> \o JsonValue(d[k])

RECURSIVE JsonItems(_, _)
JsonItems(d, keys) ==
    IF keys = <<>> THEN <<>>
    ELSE IF Head(keys) \in DOMAIN d
         THEN <<JsonItem(d, Head(keys))>> \o JsonItems(d, Tail(keys))
    ELSE JsonItems(d, Tail(keys))

\* json.dumps(d, ensure_ascii=False)
JsonDumps(d) == <<"{">> \o Join(JsonItems(d, KeyOrder), ",") \o <<"}">>

(***************************************************************************)
(* Record mappers: the tuple of values each save operation binds to its    *)
(* INSERT OR REPLACE statement, as a record column |-> value.              *)
(***************************************************************************)
\* the natural-key lookups of the batch operations
notam_id(notam) == PyOr(PyOr(Get(notam, "notamId"), Get(notam, "notamNo")), Get(notam, "id"))
snowtam_id(snowtam) == PyOr(Get(snowtam, "snowtamId"), Get(snowtam, "id"))

notam_fir_params(notam, now) ==
    [notam_id |-> notam_id(notam),
     series |-> Get(notam, "series"),
     number |-> Get(notam, "number"),
     year |-> Get(notam, "year"),
     type |-> PyOr(Get(notam, "type"), Get(notam, "notamType")),
     fir |-> PyOr(Get(notam, "fir"), <<"R", "K", "R", "R">>),
     q_code |-> Get(notam, "qCode"),
     traffic |-> Get(notam, "traffic"),
     purpose |-> Get(notam, "purpose"),
     scope |-> Get(notam, "scope"),
     lower_limit |-> PyOr(Get(notam, "lowerLimit"), Get(notam, "flLower")),
     upper_limit |-> PyOr(Get(notam, "upperLimit"), Get(notam, "flUpper")),
     coordinates |-> PyOr(Get(notam, "coordinates"), Get(notam, "coord")),
     radius |-> Get(notam, "radius"),
     location |-> PyOr(Get(notam, "location"), Get(notam, "ad")),
     valid_from |-> PyOr(Get(notam, "validFrom"), Get(notam, "fromDt")),
     valid_to |-> PyOr(Get(notam, "validTo"), Get(notam, "toDt")),
     schedule |-> Get(notam, "schedule"),
     full_text |-> PyOr(PyOr(Get(notam, "fullText"), Get(notam, "notamText")),
                        Get(notam, "eText")),
     raw_data |-> JsonDumps(notam),
     updated_at |-> Time(now)]

notam_ad_params(notam, airport_icao, now) ==
    [notam_id |-> notam_id(notam),
     airport_icao |-> PyOr(PyOr(airport_icao, Get(notam, "ad")), Get(notam, "airport")),
     series |-> Get(notam, "series"),
     number |-> Get(notam, "number"),
     year |-> Get(notam, "year"),
     type |-> PyOr(Get(notam, "type"), Get(notam, "notamType")),
     q_code |-> Get(notam, "qCode"),
     traffic |-> Get(notam, "traffic"),
     purpose |-> Get(notam, "purpose"),
     scope |-> Get(notam, "scope"),
     lower_limit |-> PyOr(Get(notam, "lowerLimit"), Get(notam, "flLower")),
     upper_limit |-> PyOr(Get(notam, "upperLimit"), Get(notam, "flUpper")),
     coordinates |-> PyOr(Get(notam, "coordinates"), Get(notam, "coord")),
     radius |-> Get(notam, "radius"),
     valid_from |-> PyOr(Get(notam, "validFrom"), Get(notam, "fromDt")),
     valid_to |-> PyOr(Get(notam, "validTo"), Get(notam, "toDt")),
     schedule |-> Get(notam, "schedule"),
     full_text |-> PyOr(PyOr(Get(notam, "fullText"), Get(notam, "notamText")),
                        Get(notam, "eText")),
     raw_data |-> JsonDumps(notam),
     updated_at |-> Time(now)]

snowtam_params(snowtam, now) ==
    [snowtam_id |-> snowtam_id(snowtam),
     airport_icao |-> PyOr(Get(snowtam, "ad"), Get(snowtam, "airport")),
     observation_time |-> Get(snowtam, "obsTime"),
     runway |-> Get(snowtam, "runway"),
     deposit_type |-> Get(snowtam, "depositType"),
     extent |-> Get(snowtam, "extent"),
     depth |-> Get(snowtam, "depth"),
     friction |-> Get(snowtam, "friction"),
     contamination |-> Get(snowtam, "contamination"),
     full_text |-> PyOr(Get(snowtam, "fullText"), Get(snowtam, "snowtamText")),
     raw_data |-> JsonDumps(snowtam),
     updated_at |-> Time(now)]

airport_params(airport_data, now) ==
    LET lat_str == PyOr(Get(airport_data, "latitude"), Get(airport_data, "lat"))
        lon_str == PyOr(Get(airport_data, "longitude"), Get(airport_data, "lon"))
        lat_dec == parse_coordinate(lat_str)
        lon_dec == parse_coordinate(lon_str)
    IN  [icao_code |-> PyOr(Get(airport_data, "icao"), Get(airport_data, "icaoCode")),
         iata_code |-> Get(airport_data, "iata"),
         name |-> PyOr(Get(airport_data, "name"), Get(airport_data, "apName")),
         name_korean |-> Get(airport_data, "nameKo"),
         city |-> PyOr(Get(airport_data, "city"), Get(airport_data, "cityName")),
         usage_type |-> PyOr(Get(airport_data, "usage"), Get(airport_data, "usageType")),
         magnetic_variation |-> PyOr(Get(airport_data, "magVar"),
                                     Get(airport_data, "magneticVariation")),
         magnetic_variation_year |-> Get(airport_data, "magVarYear"),
         elevation_m |-> PyOr(Get(airport_data, "elevation"), Get(airport_data, "elevM")),
         elevation_ft |-> Get(airport_data, "elevationFt"),
         geoid_undulation |-> Get(airport_data, "geoidUndulation"),
         latitude |-> lat_str,
         longitude |-> lon_str,
         latitude_decimal |-> lat_dec,
         longitude_decimal |-> lon_dec,
         tower_elevation_m |-> Get(airport_data, "towerElev"),
         verification_date |-> PyOr(Get(airport_data, "verificationDate"),
                                    Get(airport_data, "verDt")),
         raw_data |-> JsonDumps(airport_data),
         updated_at |-> Time(now)]

runway_params(runway_data, airport_icao, now) ==
    [airport_icao |-> airport_icao,
     runway_id |-> PyOr(Get(runway_data, "rwyId"), Get(runway_data, "runwayId")),
     direction |-> PyOr(Get(runway_data, "direction"), Get(runway_data, "rwyDir")),
     length_m |-> PyOr(Get(runway_data, "length"), Get(runway_data, "lengthM")),
     width_m |-> PyOr(Get(runway_data, "width"), Get(runway_data, "widthM")),
     surface |-> PyOr(Get(runway_data, "surface"), Get(runway_data, "surfaceType")),
     strength |-> PyOr(Get(runway_data, "strength"), Get(runway_data, "pcn")),
     threshold_latitude |-> Get(runway_data, "thrLat"),
     threshold_longitude |-> Get(runway_data, "thrLon"),
     threshold_elevation_m |-> Get(runway_data, "thrElev"),
     displaced_threshold_m |-> Get(runway_data, "displacedThr"),
     stopway_m |-> Get(runway_data, "stopway"),
     clearway_m |-> Get(runway_data, "clearway"),
     tora_m |-> Get(runway_data, "tora"),
     toda_m |-> Get(runway_data, "toda"),
     asda_m |-> Get(runway_data, "asda"),
     lda_m |-> Get(runway_data, "lda"),
     slope_percent |-> Get(runway_data, "slope"),
     lighting |-> Get(runway_data, "lighting"),
     raw_data |-> JsonDumps(runway_data),
     updated_at |-> Time(now)]

navaid_params(navaid_data, now) ==
    LET lat_str == PyOr(Get(navaid_data, "latitude"), Get(navaid_data, "lat"))
        lon_str == PyOr(Get(navaid_data, "longitude"), Get(navaid_data, "lon"))
    IN  [navaid_id |-> PyOr(Get(navaid_data, "navaidId"), Get(navaid_data, "id")),
         navaid_type |-> PyOr(Get(navaid_data, "type"), Get(navaid_data, "navaidType")),
         name |-> Get(navaid_data, "name"),
         frequency |-> PyOr(Get(navaid_data, "frequency"), Get(navaid_data, "freq")),
         channel |-> Get(navaid_data, "channel"),
         latitude |-> lat_str,
         longitude |-> lon_str,
         latitude_decimal |-> parse_coordinate(lat_str),
         longitude_decimal |-> parse_coordinate(lon_str),
         elevation_m |-> PyOr(Get(navaid_data, "elevation"), Get(navaid_data, "elev")),
         magnetic_variation |-> Get(navaid_data, "magVar"),
         range_nm |-> Get(navaid_data, "range"),
         airport_icao |-> PyOr(Get(navaid_data, "airport"), Get(navaid_data, "ad")),
         remarks |-> Get(navaid_data, "remarks"),
         raw_data |-> JsonDumps(navaid_data),
         updated_at |-> Time(now)]

obstacle_params(obstacle_data, now) ==
    LET lat_str == PyOr(Get(obstacle_data, "latitude"), Get(obstacle_data, "lat"))
        lon_str == PyOr(Get(obstacle_data, "longitude"), Get(obstacle_data, "lon"))
    IN  [obstacle_id |-> PyOr(Get(obstacle_data, "obstId"), Get(obstacle_data, "id")),
         obstacle_type |-> PyOr(Get(obstacle_data, "type"), Get(obstacle_data, "obstType")),
         name |-> Get(obstacle_data, "name"),
         latitude |-> lat_str,
         longitude |-> lon_str,
         latitude_decimal |-> parse_coordinate(lat_str),
         longitude_decimal |-> parse_coordinate(lon_str),
         elevation_m |-> PyOr(Get(obstacle_data, "elevation"), Get(obstacle_data, "elev")),
         height_m |-> Get(obstacle_data, "height"),
         lighting |-> Get(obstacle_data, "lighting"),
         marking |-> Get(obstacle_data, "marking"),
         airport_icao |-> PyOr(Get(obstacle_data, "airport"), Get(obstacle_data, "ad")),
         area_affected |-> Get(obstacle_data, "areaAffected"),
         remarks |-> Get(obstacle_data, "remarks"),
         raw_data |-> JsonDumps(obstacle_data),
         updated_at |-> Time(now)]

flight_plan_params(fpl_data, direction, today, now) ==
    LET callsign == PyOr(PyOr(Get(fpl_data, "callsign"), Get(fpl_data, "acid")),
                         Get(fpl_data, "fltNo"))
        dep_time == PyOr(PyOr(Get(fpl_data, "eobt"), Get(fpl_data, "std")),
                         Get(fpl_data, "depTime"))
    IN  [callsign |-> callsign,
         flight_number |-> PyOr(Get(fpl_data, "flightNumber"), Get(fpl_data, "fltNo")),
         aircraft_type |-> PyOr(Get(fpl_data, "aircraftType"), Get(fpl_data, "acType")),
         registration |-> PyOr(Get(fpl_data, "registration"), Get(fpl_data, "reg")),
         departure_icao |-> PyOr(PyOr(Get(fpl_data, "departure"), Get(fpl_data, "depAd")),
                                 Get(fpl_data, "adep")),
         arrival_icao |-> PyOr(PyOr(Get(fpl_data, "arrival"), Get(fpl_data, "arrAd")),
                               Get(fpl_data, "ades")),
         alternate_icao |-> PyOr(Get(fpl_data, "alternate"), Get(fpl_data, "altnAd")),
         departure_time |-> dep_time,
         arrival_time |-> PyOr(Get(fpl_data, "sta"), Get(fpl_data, "arrTime")),
         eobt |-> Get(fpl_data, "eobt"),
         atd |-> Get(fpl_data, "atd"),
         eta |-> Get(fpl_data, "eta"),
         ata |-> Get(fpl_data, "ata"),
         flight_rules |-> PyOr(Get(fpl_data, "flightRules"), Get(fpl_data, "fltRules")),
         flight_type |-> PyOr(Get(fpl_data, "flightType"), Get(fpl_data, "fltType")),
         route |-> Get(fpl_data, "route"),
         cruise_altitude |-> PyOr(Get(fpl_data, "cruiseAlt"), Get(fpl_data, "rfl")),
         cruise_speed |-> PyOr(Get(fpl_data, "cruiseSpeed"), Get(fpl_data, "speed")),
         endurance |-> PyOr(Get(fpl_data, "endurance"), Get(fpl_data, "eet")),
         persons_on_board |-> Get(fpl_data, "pob"),
         remarks |-> PyOr(Get(fpl_data, "remarks"), Get(fpl_data, "rmk")),
         status |-> Get(fpl_data, "status"),
         direction |-> direction,
         crawled_date |-> today,
         raw_data |-> JsonDumps(fpl_data),
         updated_at |-> Time(now)]

metar_params(metar_data) ==
    [airport_icao |-> PyOr(Get(metar_data, "airport"), Get(metar_data, "ad")),
     observation_time |-> PyOr(Get(metar_data, "obsTime"), Get(metar_data, "time")),
     raw_metar |-> PyOr(PyOr(Get(metar_data, "rawMetar"), Get(metar_data, "metar")),
                        Get(metar_data, "orgMsg")),
     wind_direction |-> Get(metar_data, "windDir"),
     wind_speed |-> PyOr(Get(metar_data, "windSpeed"), Get(metar_data, "ws")),
     wind_gust |-> Get(metar_data, "windGust"),
     visibility_m |-> PyOr(Get(metar_data, "visibility"), Get(metar_data, "vis")),
     weather |-> Get(metar_data, "weather"),
     clouds |-> Get(metar_data, "clouds"),
     temperature |-> PyOr(Get(metar_data, "temperature"), Get(metar_data, "temp")),
     dewpoint |-> PyOr(Get(metar_data, "dewpoint"), Get(metar_data, "dp")),
     pressure_hpa |-> PyOr(Get(metar_data, "pressure"), Get(metar_data, "qnh")),
     remarks |-> Get(metar_data, "remarks")]
(***************************************************************************)
(* The store: the tables of _create_tables, their UNIQUE constraints and   *)
(* the columns of REAL / INTEGER affinity (all other columns are TEXT).    *)
(***************************************************************************)
Tables ==
    {"notam_fir", "notam_ad", "snowtam", "prohibited_area", "airports", "runways",
     "aprons", "navaids", "obstacles", "flight_plans", "metar", "taf", "sigmet"}

UniqueKey ==
    [notam_fir |-> {"notam_id"},
     notam_ad |-> {"notam_id", "airport_icao"},
     snowtam |-> {"snowtam_id"},
     prohibited_area |-> {"notam_id"},
     airports |-> {"icao_code"},
     runways |-> {"airport_icao", "runway_id", "direction"},
     aprons |-> {"airport_icao", "apron_name"},
     navaids |-> {"navaid_id"},
     obstacles |-> {"obstacle_id"},
     flight_plans |-> {"callsign", "departure_time", "crawled_date"},
     metar |-> {"airport_icao", "observation_time"},
     taf |-> {"airport_icao", "issue_time"},
     sigmet |-> {"sigmet_id"}]

NumericColumns ==
    [notam_fir |-> {},
     notam_ad |-> {},
     snowtam |-> {},
     prohibited_area |-> {},
     airports |-> {"elevation_m", "elevation_ft", "geoid_undulation", "latitude_decimal",
                   "longitude_decimal", "tower_elevation_m"},
     runways |-> {"length_m", "width_m", "threshold_elevation_m", "displaced_threshold_m",
                  "stopway_m", "clearway_m", "tora_m", "toda_m", "asda_m", "lda_m",
                  "slope_percent"},
     aprons |-> {"area_sqm", "stands_count"},
     navaids |-> {"latitude_decimal", "longitude_decimal", "elevation_m", "range_nm"},
     obstacles |-> {"latitude_decimal", "longitude_decimal", "elevation_m", "height_m"},
     flight_plans |-> {"persons_on_board"},
     metar |-> {"wind_direction", "wind_speed", "wind_gust", "visibility_m",
                "temperature", "dewpoint", "pressure_hpa"},
     taf |-> {},
     sigmet |-> {}]

\* SQLite column affinity: a TEXT column stores a number as its text, a
\* REAL / INTEGER column stores a well-formed numeric text as the number.
TextAffinity(v) == IF v = INT0 THEN <<"0">> ELSE v
NumAffinity(v) ==
    IF v = INT0 THEN Num(0)
    ELSE IF IsStr(v) /\ PyFloat(v).ok THEN Num(PyFloat(v).val)
    ELSE v
Affinity(tbl, params) ==
    [c \in DOMAIN params |->
        IF c \in NumericColumns[tbl] THEN NumAffinity(params[c]) ELSE TextAffinity(params[c])]

\* sqlite3 binds None, int, float and str; a dict raises ("type 'dict' is not supported").
Bindable(params) == \A c \in DOMAIN params : params[c] # OBJ

\* UNIQUE: two rows conflict when they agree on every column of the constraint
\* and none of these is NULL (SQLite holds NULLs to be distinct).
Conflict(r, row, uniq) == \A c \in uniq : r[c] # NONE /\ r[c] = row[c]

\* INSERT without a conflict clause resolution: the mutation of InsertOrReplace
InsertKeepingOld(rows, row, uniq) == rows \cup {row}

\* INSERT OR REPLACE: the conflicting rows are deleted, the new row is inserted.
InsertOrReplace(rows, row, uniq) == {r \in rows : ~Conflict(r, row, uniq)} \cup {row}

\* cursor.execute(INSERT OR REPLACE ...): the row gets the next AUTOINCREMENT id
\* and created_at = CURRENT_TIMESTAMP; a binding error leaves the table as it was.
Execute(tbl, rows, s, params, now) ==
    IF ~Bindable(params) THEN [raised |-> TRUE, rows |-> rows, seq |-> s]
    ELSE LET row == Affinity(tbl, params) @@ [id |-> s + 1, created_at |-> Time(now)]
         IN  [raised |-> FALSE,
              rows |-> InsertOrReplace(rows, row, UniqueKey[tbl]),
              seq |-> s + 1]

\* a batch loop that stops at the first record whose insert raises
RECURSIVE BatchLoopAborting(_, _, _, _, _)
BatchLoopAborting(tbl, rows, s, count, attempts) ==
    IF attempts = <<>> THEN [rows |-> rows, seq |-> s, count |-> count]
    ELSE LET a == Head(attempts)
             e == Execute(tbl, rows, s, a.params, a.now)
         IN  IF a.skip THEN BatchLoopAborting(tbl, rows, s, count, Tail(attempts))
             ELSE IF e.raised THEN [rows |-> rows, seq |-> s, count |-> count]
             ELSE BatchLoopAborting(tbl, e.rows, e.seq, count + 1, Tail(attempts))

\* a batch loop that counts every record it looks at
RECURSIVE BatchLoopCountingAll(_, _, _, _, _)
BatchLoopCountingAll(tbl, rows, s, count, attempts) ==
    IF attempts = <<>> THEN [rows |-> rows, seq |-> s, count |-> count]
    ELSE LET a == Head(attempts)
             e == Execute(tbl, rows, s, a.params, a.now)
         IN  IF a.skip THEN BatchLoopCountingAll(tbl, rows, s, count + 1, Tail(attempts))
             ELSE IF e.raised THEN BatchLoopCountingAll(tbl, rows, s, count, Tail(attempts))
             ELSE BatchLoopCountingAll(tbl, e.rows, e.seq, count + 1, Tail(attempts))

\* The loop of the batch operations: a record without its key is skipped
\* (continue), a record whose insert raises is logged (except), any other
\* record is written and counted.
RECURSIVE BatchLoop(_, _, _, _, _)
BatchLoop(tbl, rows, s, count, attempts) ==
    IF attempts = <<>> THEN [rows |-> rows, seq |-> s, count |-> count]
    ELSE LET a == Head(attempts)
             e == Execute(tbl, rows, s, a.params, a.now)
         IN  IF a.skip THEN BatchLoop(tbl, rows, s, count, Tail(attempts))
             ELSE IF e.raised THEN BatchLoop(tbl, rows, s, count, Tail(attempts))
             ELSE BatchLoop(tbl, e.rows, e.seq, count + 1, Tail(attempts))

(***************************************************************************)
(* Upstream records handed to the save operations.                         *)
(***************************************************************************)
\* records handed to the store in one run (each takes one tick of the clock)
MaxClock == 2
\* length of a batch
MaxBatch == 2
\* days a run spans
MaxDay == 2

A == <<"A">>
B == <<"B">>
RKSI == <<"R", "K", "S", "I">>
T1 == <<"0", "0", "0", "0", "Z">>
M1 == <<"R", "K", "S", "I", " ", "1">>
M2 == <<"R", "K", "S", "I", " ", "2">>
DEP == <<"D", "E", "P">>
ARR == <<"A", "R", "R">>
N372745 == <<"N", "3", "7", "-", "2", "7", "-", "4", "5">>
N37 == <<"N", "3", "7">>
Minus375 == <<"-", "3", "7", ".", "5">>

NotamPool ==
    {[notamId |-> A, type |-> A],
     [notamNo |-> A, notamType |-> B],
     [type |-> A, ad |-> RKSI],
     [notamId |-> B, type |-> OBJ],
     [notamId |-> EMPTY, id |-> B, type |-> INT0, notamType |-> A, series |-> INT0]}
SnowtamPool ==
    {[snowtamId |-> A, ad |-> RKSI],
     [id |-> A, airport |-> RKSI, depth |-> B],
     [ad |-> RKSI, depth |-> B],
     [snowtamId |-> B, depth |-> OBJ]}
AirportPool ==
    {[icao |-> A, latitude |-> N372745],
     [icaoCode |-> A, lat |-> Minus375],
     [latitude |-> N37, name |-> B],
     [icao |-> B, name |-> OBJ],
     [icao |-> B, latitude |-> OBJ]}
RunwayPool ==
    {[rwyId |-> A, direction |-> A],
     [runwayId |-> A, rwyDir |-> A, length |-> INT0, lengthM |-> B],
     [rwyId |-> A, surface |-> B],
     [rwyId |-> B, direction |-> A, surface |-> OBJ]}
NavaidPool ==
    {[navaidId |-> A, latitude |-> N372745],
     [id |-> A, lat |-> N37, type |-> B],
     [name |-> B],
     [navaidId |-> B, name |-> OBJ]}
ObstaclePool ==
    {[obstId |-> A, latitude |-> N372745],
     [id |-> A, lat |-> Minus375, type |-> B],
     [name |-> B],
     [obstId |-> B, name |-> OBJ]}
FlightPlanPool ==
    {[callsign |-> A, eobt |-> T1],
     [acid |-> A, std |-> T1, reg |-> B],
     [callsign |-> A, reg |-> B],
     [eobt |-> T1],
     [callsign |-> B, eobt |-> T1, route |-> OBJ]}
MetarPool ==
    {[ad |-> RKSI, obsTime |-> T1, orgMsg |-> M1],
     [airport |-> RKSI, time |-> T1, metar |-> M2, windSpeed |-> INT0, ws |-> B],
     [obsTime |-> T1, orgMsg |-> M1],
     [ad |-> RKSI, obsTime |-> T1, clouds |-> OBJ]}

Batches(pool) == SeqsUpTo(pool, MaxBatch)
Max(a, b) == IF a >= b THEN a ELSE b

(***************************************************************************)
(* State.                                                                  *)
(***************************************************************************)
VARIABLES
    db,         \* the connection's view: table |-> set of rows
    committed,  \* the database file: what the last commit wrote
    seq,        \* sqlite_sequence: table |-> largest id handed out
    clock,      \* datetime.now(), in ticks
    today,      \* the date of datetime.now(), as a day number
    call,       \* the last operation and its arguments
    ret,        \* what the last operation returned
    coord_str,  \* the argument of _parse_coordinate
    coord_ret,  \* what _parse_coordinate returned
    \* UnifiedAviationCrawler (docker/unified_crawler.py)
    retry_count,  \* Config.retry_count
    pos,          \* crawl_ubikais: <<>> outside it, else <<the number of slices fetched>>
    data,         \* crawl_ubikais: the slices stored in data so far
    log,          \* the GETs and sleeps of the last _request_with_retry
    fetched,      \* the last fetch: what the network did and what was returned
    results,      \* crawl_all: the results dict so far, NONE outside crawl_all
    ran,          \* crawl_all: the crawlers called so far and how each call ended
    max_files,    \* Config.max_files_per_category
    files,        \* the output directories: category |-> set of file names
    contents,     \* category |-> the data dict each of its files holds
    summary,      \* crawl_summary.json, NONE while the file is absent
    wallclock,    \* datetime.now(), in seconds
    last_save,    \* the last _save_data: its arguments, time and failed removals
    \* scheduler.py
    crawler_status,  \* the global crawler_status
    pc,              \* thread |-> the line of run_crawl it is at
    mode,            \* thread |-> the mode argument of its invocation
    cycle,           \* thread |-> what its invocation has done so far
    \* lambda_handler.py
    s3_db,        \* the database object in S3: table |-> rows, or no table
    tmp_db,       \* the copy at DB_PATH, or NONE while the file is absent
    cwd_db,       \* ./ubikais_full.db, or NONE while the file is absent
    event,        \* the last request
    response,     \* the response to it
    raised,       \* the exceptions raised while it was served
    cors_env,     \* the environment variable CORS_ALLOWED_ORIGINS
    schema,       \* the tables of the store's database file
    indexes,      \* its indexes
    opened        \* the outcome of the last construction of the store

dbVars == <<db, committed, seq, clock, today, call, ret>>
coordVars == <<coord_str, coord_ret>>
fetchVars == <<retry_count, pos, data, log, fetched, results, ran>>
fileVars == <<max_files, files, contents, summary, wallclock, last_save>>
schedVars == <<crawler_status, pc, mode, cycle>>
facadeVars == <<s3_db, tmp_db, cwd_db, event, response, raised, cors_env>>
openVars == <<schema, indexes, opened>>
vars == <<dbVars, coordVars, fetchVars, fileVars, schedVars, facadeVars, openVars>>
store == <<db, committed, seq>>

\* Config: retry_count, retry_delay (in seconds), max_files_per_category
DefaultRetryCount == 3
retry_delay == 1
DefaultMaxFiles == 24
\* _init_directories: the output directories
Categories == {"ubikais", "aim", "weather", "airport"}

MaxThreads == 2
Threads == 1..MaxThreads

\* an invocation of run_crawl that has done nothing yet
NoCycle == [login |-> "none", did |-> {}, entry |-> NONE]

\* the state of each component before it is used
CoordIdle ==
    /\ coord_str = NONE
    /\ coord_ret = UNSET
FetchIdle ==
    /\ retry_count = DefaultRetryCount
    /\ pos = <<>>
    /\ data = NONE
    /\ log = <<>>
    /\ fetched = NONE
    /\ results = NONE
    /\ ran = <<>>
FilesIdle ==
    /\ max_files = DefaultMaxFiles
    /\ files = [c \in Categories |-> {}]
    /\ contents = [c \in Categories |-> <<>>]
    /\ summary = NONE
    /\ wallclock = 0
    /\ last_save = NONE
SchedIdle ==
    /\ crawler_status = [last_crawl |-> NONE, last_success |-> TRUE, crawl_count |-> 0,
                         error_count |-> 0, running |-> FALSE]
    /\ pc = [t \in Threads |-> "idle"]
    /\ mode = [t \in Threads |-> NONE]
    /\ cycle = [t \in Threads |-> NoCycle]
FacadeIdle ==
    /\ s3_db = NONE
    /\ tmp_db = NONE
    /\ cwd_db = NONE
    /\ event = NONE
    /\ response = NONE
    /\ raised = {}
    /\ cors_env = <<>>

\* the store has been opened on a file that has its tables
OpenIdle ==
    /\ schema = Tables
    /\ indexes = {}
    /\ opened = "none"

InitStore ==
    /\ db = [t \in Tables |-> {}]
    /\ committed = [t \in Tables |-> {}]
    /\ seq = [t \in Tables |-> 0]
    /\ clock = 0
    /\ today = 1
    /\ call = [op |-> "none", args |-> <<>>, param |-> NONE]
    /\ ret = 0

Init ==
    /\ InitStore /\ OpenIdle
    /\ CoordIdle
    /\ FetchIdle /\ FilesIdle /\ SchedIdle /\ FacadeIdle

\* the outcome of a batch operation on table tbl
Batch(tbl, op, list, param, attempts) ==
    /\ clock + Max(1, Len(list)) <= MaxClock
    /\ clock' = clock + Max(1, Len(list))
    /\ call' = [op |-> op, args |-> list, param |-> param]
    /\ IF list = <<>>
       THEN /\ ret' = 0
            /\ UNCHANGED store
       ELSE LET r == BatchLoop(tbl, db[tbl], seq[tbl], 0, attempts)
            IN  /\ db' = [db EXCEPT ![tbl] = r.rows]
                /\ seq' = [seq EXCEPT ![tbl] = r.seq]
                /\ committed' = db'
                /\ ret' = r.count
    /\ UNCHANGED <<today, coordVars, fetchVars, fileVars, schedVars, facadeVars, openVars>>

\* the outcome of a single-record operation on table tbl
Single(tbl, op, record, param, params) ==
    /\ clock + 1 <= MaxClock
    /\ clock' = clock + 1
    /\ call' = [op |-> op, args |-> <<record>>, param |-> param]
    /\ LET e == Execute(tbl, db[tbl], seq[tbl], params, clock + 1)
       IN  IF e.raised
           THEN /\ ret' = FALSE
                /\ UNCHANGED store
           ELSE /\ db' = [db EXCEPT ![tbl] = e.rows]
                /\ seq' = [seq EXCEPT ![tbl] = e.seq]
                /\ committed' = db'
                /\ ret' = TRUE
    /\ UNCHANGED <<coordVars, fetchVars, fileVars, schedVars, facadeVars, openVars>>

save_notam_fir(notam_list) ==
    Batch("notam_fir", "save_notam_fir", notam_list, NONE,
          [i \in 1..Len(notam_list) |->
              [skip |-> ~Truthy(notam_id(notam_list[i])),
               params |-> notam_fir_params(notam_list[i], clock + i),
               now |-> clock + i]])

save_notam_ad(notam_list, airport_icao) ==
    Batch("notam_ad", "save_notam_ad", notam_list, airport_icao,
          [i \in 1..Len(notam_list) |->
              [skip |-> ~Truthy(notam_id(notam_list[i])),
               params |-> notam_ad_params(notam_list[i], airport_icao, clock + i),
               now |-> clock + i]])

save_snowtam(snowtam_list) ==
    Batch("snowtam", "save_snowtam", snowtam_list, NONE,
          [i \in 1..Len(snowtam_list) |->
              [skip |-> ~Truthy(snowtam_id(snowtam_list[i])),
               params |-> snowtam_params(snowtam_list[i], clock + i),
               now |-> clock + i]])

save_airport(airport_data) ==
    /\ Single("airports", "save_airport", airport_data, NONE,
              airport_params(airport_data, clock + 1))
    /\ UNCHANGED today

save_runway(runway_data, airport_icao) ==
    /\ Single("runways", "save_runway", runway_data, airport_icao,
              runway_params(runway_data, airport_icao, clock + 1))
    /\ UNCHANGED today

save_navaid(navaid_data) ==
    /\ Single("navaids", "save_navaid", navaid_data, NONE,
              navaid_params(navaid_data, clock + 1))
    /\ UNCHANGED today

save_obstacle(obstacle_data) ==
    /\ Single("obstacles", "save_obstacle", obstacle_data, NONE,
              obstacle_params(obstacle_data, clock + 1))
    /\ UNCHANGED today

\* today is the date of the call: the day of the last call or a later one
save_flight_plan(fpl_data, direction, day) ==
    /\ today' = day
    /\ Single("flight_plans", "save_flight_plan", fpl_data, direction,
              flight_plan_params(fpl_data, direction, Date(day), clock + 1))

save_metar(metar_data) ==
    /\ Single("metar", "save_metar", metar_data, NONE, metar_params(metar_data))
    /\ UNCHANGED today

Next ==
    \/ \E notam_list \in Batches(NotamPool) : save_notam_fir(notam_list)
    \/ \E notam_list \in Batches(NotamPool), airport_icao \in {NONE, RKSI} :
          save_notam_ad(notam_list, airport_icao)
    \/ \E snowtam_list \in Batches(SnowtamPool) : save_snowtam(snowtam_list)
    \/ \E airport_data \in AirportPool : save_airport(airport_data)
    \/ \E runway_data \in RunwayPool : save_runway(runway_data, RKSI)
    \/ \E navaid_data \in NavaidPool : save_navaid(navaid_data)
    \/ \E obstacle_data \in ObstaclePool : save_obstacle(obstacle_data)
    \/ \E fpl_data \in FlightPlanPool, direction \in {DEP, ARR}, day \in today..MaxDay :
          save_flight_plan(fpl_data, direction, day)
    \/ \E metar_data \in MetarPool : save_metar(metar_data)

Spec == Init /\ [][Next]_vars

(***************************************************************************)
(* Opening the store: UBIKAISDatabase.__init__, _init_database and         *)
(* _create_tables, and UBIKAISCrawler.__init__ which constructs it.  The   *)
(* connection runs each DDL statement in autocommit, so the statements     *)
(* before a failing one stay in the file.                                  *)
(***************************************************************************)
\* rows a file holds when it is opened
MaxRows == 2

\* the CREATE TABLE IF NOT EXISTS statements, in the order of the code
TableOrder ==
    <<"notam_fir", "notam_ad", "snowtam", "prohibited_area", "airports", "runways",
      "aprons", "navaids", "obstacles", "flight_plans", "metar", "taf", "sigmet">>

\* the CREATE INDEX IF NOT EXISTS statements; the first is written
\* "... idx_notam_fir_valid FROM notam_fir(valid_from)", which is no SQL
IndexOrder ==
    <<[name |-> "idx_notam_fir_valid", on |-> "notam_fir", sql |-> FALSE],
      [name |-> "idx_notam_ad_airport", on |-> "notam_ad", sql |-> TRUE],
      [name |-> "idx_runways_airport", on |-> "runways", sql |-> TRUE],
      [name |-> "idx_navaids_airport", on |-> "navaids", sql |-> TRUE],
      [name |-> "idx_flight_plans_date", on |-> "flight_plans", sql |-> TRUE],
      [name |-> "idx_metar_airport", on |-> "metar", sql |-> TRUE]>>

\* the CREATE INDEX statements run in order up to the first that raises
RECURSIVE CreateIndexes(_, _, _)
CreateIndexes(stmts, tbls, idx) ==
    IF stmts = <<>> THEN [raised |-> FALSE, indexes |-> idx]
    ELSE LET x == Head(stmts)
         IN  IF ~x.sql \/ x.on \notin tbls THEN [raised |-> TRUE, indexes |-> idx]
             ELSE CreateIndexes(Tail(stmts), tbls, idx \cup {x.name})

\* _create_tables on a file with the tables tbls and the indexes idx
create_tables(tbls, idx) ==
    LET created == tbls \cup {TableOrder[i] : i \in 1..Len(TableOrder)}
        r == CreateIndexes(IndexOrder, created, idx)
    IN  [raised |-> r.raised, schema |-> created, indexes |-> r.indexes]

\* UBIKAISDatabase(db_path): the constructor returns, or the exception of
\* _create_tables leaves it
ConstructDatabase ==
    LET r == create_tables(schema, indexes)
    IN  /\ schema' = r.schema
        /\ indexes' = r.indexes
        /\ opened' = IF r.raised THEN "raised" ELSE "ok"

OpenDatabase ==
    /\ ConstructDatabase
    /\ UNCHANGED <<dbVars, coordVars, fetchVars, fileVars, schedVars, facadeVars>>

\* UBIKAISCrawler(username, password, output_dir, use_db)
CrawlerInit(use_db, DB_AVAILABLE) ==
    /\ IF use_db /\ DB_AVAILABLE
       THEN ConstructDatabase
       ELSE /\ opened' = "unused"
            /\ UNCHANGED <<schema, indexes>>
    /\ UNCHANGED <<dbVars, coordVars, fetchVars, fileVars, schedVars, facadeVars>>

\* the rows a sequence of single saves leaves in a table
RECURSIVE Stored(_, _, _, _)
Stored(tbl, rows, s, paramsList) ==
    IF paramsList = <<>> THEN [rows |-> rows, seq |-> s]
    ELSE LET e == Execute(tbl, rows, s, Head(paramsList), s + 1)
         IN  Stored(tbl, e.rows, e.seq, Tail(paramsList))

\* the files the store is opened on: a new one, and initialised ones with
\* flight plans and METARs in them
Contents ==
    {[flight_plans |-> f, metar |-> m] :
        f \in {Stored("flight_plans", {}, 0,
                      [i \in 1..Len(l) |-> flight_plan_params(l[i], DEP, Date(1), i)]) :
                  l \in SeqsUpTo(FlightPlanPool, MaxRows)},
        m \in {Stored("metar", {}, 0, [i \in 1..Len(l) |-> metar_params(l[i])]) :
                  l \in SeqsUpTo(MetarPool, MaxRows)}}

InitOpen ==
    /\ CoordIdle /\ FetchIdle /\ FilesIdle /\ SchedIdle /\ FacadeIdle
    /\ schema \in {{}, Tables}
    /\ indexes = {}
    /\ opened = "none"
    /\ \E c \in Contents :
          /\ db = [t \in Tables |->
                      IF schema = {} THEN {}
                      ELSE IF t \in DOMAIN c THEN c[t].rows ELSE {}]
          /\ seq = [t \in Tables |->
                       IF schema = {} THEN 0
                       ELSE IF t \in DOMAIN c THEN c[t].seq ELSE 0]
    /\ committed = db
    /\ clock = 0
    /\ today = 1
    /\ call = [op |-> "none", args |-> <<>>, param |-> NONE]
    /\ ret = 0

NextOpen ==
    \/ OpenDatabase
    \/ \E use_db \in BOOLEAN, DB_AVAILABLE \in BOOLEAN : CrawlerInit(use_db, DB_AVAILABLE)

SpecOpen == InitOpen /\ [][NextOpen]_vars

(***************************************************************************)
(* The coordinate parser on its own.                                       *)
(***************************************************************************)
InitCoord ==
    /\ InitStore /\ OpenIdle
    /\ coord_str \in CoordInputs
    /\ coord_ret = UNSET
    /\ FetchIdle /\ FilesIdle /\ SchedIdle /\ FacadeIdle

ParseCoordinate ==
    /\ coord_ret = UNSET
    /\ coord_ret' = parse_coordinate(coord_str)
    /\ UNCHANGED <<dbVars, coord_str, fetchVars, fileVars, schedVars, facadeVars, openVars>>

NextCoord == ParseCoordinate

SpecCoord == InitCoord /\ [][NextCoord]_vars
(***************************************************************************)
(* UnifiedAviationCrawler: snapshot files and their retention.  A file     *)
(* name is <name>_<stamp>.json, the stamp being datetime.now() formatted   *)
(* as %Y%m%d_%H%M%S (fixed width, so that names sort as times do), or      *)
(* <name>_latest.json.                                                     *)
(***************************************************************************)
MaxStamp == 3
MaxKeep == 2

Snapshot(name, t) == [name |-> name, latest |-> FALSE, stamp |-> t]
Latest(name) == [name |-> name, latest |-> TRUE, stamp |-> 0]

\* glob.glob(<dir>/<name>_2*.json): the timestamped files of that name
Glob(dir, name) == {f \in dir : f.name = name /\ ~f.latest}

\* sorted(..., reverse=True)
RECURSIVE SortedReverse(_)
SortedReverse(S) ==
    IF S = {} THEN <<>>
    ELSE LET m == CHOOSE f \in S : \A g \in S : g.stamp <= f.stamp
         IN  <<m>> \o SortedReverse(S \ {m})

\* seq[n:]
SliceFrom(list, n) ==
    IF n >= 0 THEN SubSeq(list, n + 1, Len(list))
    ELSE SubSeq(list, Max(Len(list) + n, 0) + 1, Len(list))

Range(list) == {list[i] : i \in 1..Len(list)}

\* the files _cleanup_old_files tries to remove
OldFiles(dir, name, keep) == Range(SliceFrom(SortedReverse(Glob(dir, name)), keep))

CleanupKeepingOldest(dir, name, keep, failing) ==
    LET files_ == SortedReverse(Glob(dir, name))
        kept == Range(SliceFrom(files_, Len(files_) - Max(keep, 0)))
    IN  dir \ ((Glob(dir, name) \ kept) \ failing)

\* _cleanup_old_files; os.remove raises OSError on the files in failing
cleanup_old_files(dir, name, keep, failing) ==
    dir \ (OldFiles(dir, name, keep) \ failing)

\* _save_data: the directory after the two writes and the cleanup
SaveData(dir, name, t, keep, failing) ==
    cleanup_old_files(dir \cup {Snapshot(name, t), Latest(name)}, name, keep, failing)

DumpedToSnapshotOnly(held, kept, name, t, d) ==
    [f \in kept |-> IF f = Snapshot(name, t) \/ f \notin DOMAIN held THEN d ELSE held[f]]

\* what the files of a directory hold after _save_data has written d twice
\* and the cleanup has left the files of kept
Dumped(held, kept, name, t, d) ==
    [f \in kept |-> IF f \in {Snapshot(name, t), Latest(name)} THEN d ELSE held[f]]

\* a data dict, told from the others by its "crawled_at"
DataAt(t) == [crawled_at |-> t]

\* the calls of _save_data: crawl_ubikais and crawl_aim_korea
SaveSites == {<<"ubikais", "notam">>, <<"aim", "notam">>}

save_data(category, name, failing) ==
    /\ failing \subseteq OldFiles(files[category] \cup {Snapshot(name, wallclock)},
                                  name, max_files)
    /\ files' = [files EXCEPT ![category] =
                     SaveData(files[category], name, wallclock, max_files, failing)]
    /\ contents' = [contents EXCEPT ![category] =
                        Dumped(contents[category], files'[category], name, wallclock,
                               DataAt(wallclock))]
    /\ last_save' = Some([category |-> category, name |-> name, stamp |-> wallclock,
                          removed |-> OldFiles(files[category] \cup
                                                   {Snapshot(name, wallclock)},
                                               name, max_files) \ failing,
                          failed |-> failing])
    /\ UNCHANGED <<max_files, summary, wallclock>>
    /\ UNCHANGED <<dbVars, coordVars, fetchVars, schedVars, facadeVars, openVars>>

\* a second passes
Tick ==
    /\ wallclock < MaxStamp
    /\ wallclock' = wallclock + 1
    /\ UNCHANGED <<max_files, files, contents, summary, last_save>>
    /\ UNCHANGED <<dbVars, coordVars, fetchVars, schedVars, facadeVars, openVars>>

InitFiles ==
    /\ InitStore /\ OpenIdle /\ CoordIdle /\ FetchIdle /\ SchedIdle /\ FacadeIdle
    /\ max_files \in 0..MaxKeep
    /\ files = [c \in Categories |-> {}]
    /\ contents = [c \in Categories |-> <<>>]
    /\ summary = NONE
    /\ wallclock = 0
    /\ last_save = NONE

NextFiles ==
    \/ Tick
    \/ \E site \in SaveSites :
           \E failing \in SUBSET (files[site[1]] \cup {Snapshot(site[2], wallclock)}) :
               save_data(site[1], site[2], failing)

SpecFiles == InitFiles /\ [][NextFiles]_vars

(***************************************************************************)
(* UnifiedAviationCrawler: the fetch-with-retry client and crawl_ubikais.  *)
(* What the network does on a GET is an input: the request raises, or a    *)
(* response comes back with a status code and a body.  A body is JSON (its *)
(* decoded value is kept) or is not (its text is kept by its length).      *)
(***************************************************************************)
MaxRetry == 3
MaxAirports == 2
MaxBody == 2

HTTP_OK == 200
HTTP_ERROR == 500
\* raise_for_status raises from this status on
HTTP_CLIENT_ERROR == 400
\* response.text[:500]
RawLimit == 500

EXC == [exception |-> TRUE]
Response(code, body) == [exception |-> FALSE, status_code |-> code, body |-> body]
JsonBody(value) == [json |-> TRUE, value |-> value]
TextBody(n) == [json |-> FALSE, len |-> n]

\* the decoded payloads: a grid with records, and one without
WithRecords == [records |-> <<A>>]
NoRecords == [records |-> <<>>]
Bodies ==
    {JsonBody(WithRecords), JsonBody(NoRecords)}
        \cup {TextBody(n) : n \in {0} \cup ((RawLimit - 1)..(RawLimit - 1 + MaxBody))}
Failures == {EXC, Response(HTTP_ERROR, TextBody(0))}
Outcomes == Failures \cup {Response(HTTP_OK, b) : b \in Bodies}
\* what the GETs of one _request_with_retry meet: failures, up to the first
\* response with status 200 if there is one within n attempts
Runs(n) ==
    {f \o <<Response(HTTP_OK, b)>> :
         f \in UNION {[1..k -> Failures] : k \in 0..(n - 1)},
         b \in {JsonBody(WithRecords), JsonBody(NoRecords), TextBody(RawLimit)}}
        \cup [1..n -> Failures]

GET(o) == <<"get", o>>
SLEEP(d) == <<"sleep", d>>

RECURSIVE RetryLoopGivingUpEarly(_, _, _)
RetryLoopGivingUpEarly(outs, attempt, events) ==
    IF attempt >= retry_count - 1
    THEN [resp |-> NONE, log |-> events]
    ELSE LET o == outs[attempt + 1]
         IN  IF o.exception
             THEN RetryLoopGivingUpEarly(outs, attempt + 1,
                      Append(events, GET(o)) \o <<SLEEP(retry_delay * (attempt + 1))>>)
             ELSE IF o.status_code = HTTP_OK
                  THEN [resp |-> Some(o), log |-> Append(events, GET(o))]
                  ELSE RetryLoopGivingUpEarly(outs, attempt + 1, Append(events, GET(o)))

\* the loop of _request_with_retry from the given attempt on; outs[k] is
\* what the k-th GET meets
RECURSIVE RetryLoop(_, _, _)
RetryLoop(outs, attempt, events) ==
    IF attempt >= retry_count
    THEN [resp |-> NONE, log |-> events]
    ELSE LET o == outs[attempt + 1]
         IN  IF o.exception
             THEN RetryLoop(outs, attempt + 1,
                      Append(events, GET(o)) \o
                          (IF attempt < retry_count - 1
                           THEN <<SLEEP(retry_delay * (attempt + 1))>>
                           ELSE <<>>))
             ELSE IF o.status_code = HTTP_OK
                  THEN [resp |-> Some(o), log |-> Append(events, GET(o))]
                  ELSE RetryLoop(outs, attempt + 1, Append(events, GET(o)))

request_with_retry(outs) == RetryLoop(outs, 0, <<>>)

\* resp.json() under except json.JSONDecodeError: return None
ubikais_fetch(outs) ==
    LET r == request_with_retry(outs)
    IN  [ret |-> IF r.resp # NONE /\ The(r.resp).body.json
                 THEN Some(The(r.resp).body.value)
                 ELSE NONE,
         resp |-> r.resp,
         log |-> r.log]

\* UBIKAISCrawler._make_request: one GET, raise_for_status, response.json()
make_request(o) ==
    IF o.exception THEN NONE
    ELSE IF o.status_code >= HTTP_CLIENT_ERROR THEN NONE
    ELSE IF o.body.json THEN Some(o.body.value)
    ELSE Some([raw |-> IF o.body.len < RawLimit THEN o.body.len ELSE RawLimit])

\* Config.korean_airports, and the slices of crawl_ubikais in fetch order
AllAirports ==
    <<"RKSI", "RKSS", "RKPC", "RKPK", "RKPU", "RKJJ", "RKTN", "RKNY", "RKJB", "RKJY">>
korean_airports == SubSeq(AllAirports, 1, MaxAirports)
Slices ==
    <<<<"fir_notam", "C">>, <<"fir_notam", "A">>, <<"fir_notam", "D">>>>
        \o [i \in 1..Len(korean_airports) |-> <<"ad_notam", korean_airports[i]>>]
        \o <<<<"snowtam", "">>, <<"prohibited_area", "">>>>

\* result and result.get("records")
HasRecords(result) == result # NONE /\ The(result).records # <<>>

\* crawl_ubikais up to the first fetch: the login
crawl_ubikais_login(ok) ==
    /\ pos = <<>>
    /\ IF ok
       THEN /\ pos' = <<0>>
            /\ data' = Some(<<>>)
       ELSE /\ pos' = <<>>
            /\ data' = NONE
    /\ log' = <<>>
    /\ fetched' = NONE
    /\ UNCHANGED <<retry_count, results, ran>>
    /\ UNCHANGED <<dbVars, coordVars, fileVars, schedVars, facadeVars, openVars>>

\* crawl_ubikais: the fetch of the next slice and what is kept of it
crawl_ubikais_fetch(outs) ==
    /\ pos # <<>>
    /\ pos[1] < Len(Slices)
    /\ LET slice == Slices[pos[1] + 1]
           r == ubikais_fetch(outs)
       IN  /\ fetched' = Some([op |-> "_ubikais_fetch", slice |-> slice, outs |-> outs,
                                resp |-> r.resp, ret |-> r.ret])
           /\ log' = r.log
           /\ data' = IF HasRecords(r.ret)
                       THEN Some((slice :> The(r.ret)) @@ The(data))
                       ELSE data
    /\ pos' = <<pos[1] + 1>>
    /\ UNCHANGED <<retry_count, results, ran>>
    /\ UNCHANGED <<dbVars, coordVars, fileVars, schedVars, facadeVars, openVars>>

\* crawl_ubikais: the final _save_data("ubikais", "notam", data)
crawl_ubikais_save(failing) ==
    /\ pos = <<Len(Slices)>>
    /\ pos' = <<>>
    /\ failing \subseteq OldFiles(files["ubikais"] \cup {Snapshot("notam", wallclock)},
                                  "notam", max_files)
    /\ files' = [files EXCEPT !["ubikais"] =
                     SaveData(files["ubikais"], "notam", wallclock, max_files, failing)]
    /\ contents' = [contents EXCEPT !["ubikais"] =
                        Dumped(contents["ubikais"], files'["ubikais"], "notam", wallclock,
                               DataAt(wallclock))]
    /\ last_save' = Some([category |-> "ubikais", name |-> "notam", stamp |-> wallclock,
                          removed |-> OldFiles(files["ubikais"] \cup
                                                   {Snapshot("notam", wallclock)},
                                               "notam", max_files) \ failing,
                          failed |-> failing])
    /\ UNCHANGED <<retry_count, data, log, fetched, results, ran>>
    /\ UNCHANGED <<max_files, summary, wallclock>>
    /\ UNCHANGED <<dbVars, coordVars, schedVars, facadeVars, openVars>>

\* UBIKAISCrawler._make_request (ubikais_crawler.py)
MakeRequest(o) ==
    /\ pos = <<>>
    /\ fetched' = Some([op |-> "_make_request", slice |-> <<>>, outs |-> <<o>>,
                         resp |-> IF o.exception THEN NONE ELSE Some(o),
                         ret |-> make_request(o)])
    /\ log' = <<GET(o)>>
    /\ UNCHANGED <<retry_count, pos, data, results, ran>>
    /\ UNCHANGED <<dbVars, coordVars, fileVars, schedVars, facadeVars, openVars>>

InitFetch ==
    /\ InitStore /\ OpenIdle /\ CoordIdle /\ FilesIdle /\ SchedIdle /\ FacadeIdle
    /\ retry_count \in 0..MaxRetry
    /\ pos = <<>>
    /\ data = NONE
    /\ log = <<>>
    /\ fetched = NONE
    /\ results = NONE
    /\ ran = <<>>

NextFetch ==
    \/ \E ok \in BOOLEAN : crawl_ubikais_login(ok)
    \/ \E outs \in Runs(retry_count) : crawl_ubikais_fetch(outs)
    \/ \E failing \in SUBSET (files["ubikais"]) : crawl_ubikais_save(failing)
    \/ \E o \in Outcomes : MakeRequest(o)

SpecFetch == InitFetch /\ [][NextFetch]_vars

(***************************************************************************)
(* UnifiedAviationCrawler.crawl_all: the four crawlers, called one after   *)
(* the other, and the summary file.  How a call ends is an input: the      *)
(* crawler raises before it has written anything, crawl_ubikais returns    *)
(* None because the login failed, or the crawler saves its data dict and   *)
(* returns it.                                                             *)
(***************************************************************************)
\* lines 413-418
crawlers == <<"ubikais", "aim", "weather", "airport">>

\* the file name each crawler saves under (lines 273, 300, 346, 402)
SaveName(category) ==
    CASE category = "ubikais" -> "notam"
      [] category = "aim" -> "notam"
      [] category = "weather" -> "aviation"
      [] category = "airport" -> "incheon"

RAISES == "raises"
RETURNS_NONE == "returns None"
RETURNS_DATA == "returns data"
\* only crawl_ubikais has a return None (line 211)
Endings(name) ==
    IF name = "ubikais" THEN {RAISES, RETURNS_NONE, RETURNS_DATA}
    ELSE {RAISES, RETURNS_DATA}

\* lines 422-426: what results[name] becomes
ResultOf(how, t) == IF how = RETURNS_DATA THEN Some(DataAt(t)) ELSE NONE

StatusAlwaysSuccess(v) == "success"

\* line 431: "success" if v else "failed"; a data dict has keys and is true
StatusOf(v) == IF v # NONE THEN "success" ELSE "failed"

\* lines 428-432
Summary(res, t) ==
    [crawled_at |-> t,
     sources |-> [i \in 1..Len(res) |-> res[i][1]],
     status |-> [i \in 1..Len(res) |-> <<res[i][1], StatusOf(res[i][2])>>]]

MaxRounds == 1

\* run(), lines 463-466: the loop sleeps until the next job is due
Sleep ==
    /\ results = NONE
    /\ wallclock < MaxRounds
    /\ wallclock' = wallclock + 1
    /\ UNCHANGED <<max_files, files, contents, summary, last_save>>
    /\ UNCHANGED <<dbVars, coordVars, fetchVars, schedVars, facadeVars, openVars>>

\* job() and line 420: at once (line 458), then when the interval has passed
crawl_all_begin ==
    /\ results = NONE
    /\ summary # NONE => The(summary).crawled_at < wallclock
    /\ results' = Some(<<>>)
    /\ ran' = <<>>
    /\ UNCHANGED <<retry_count, pos, data, log, fetched>>
    /\ UNCHANGED <<dbVars, coordVars, fileVars, schedVars, facadeVars, openVars>>

\* lines 421-426: one turn of the loop
crawl_all_call(how, failing) ==
    /\ results # NONE
    /\ Len(The(results)) < Len(crawlers)
    /\ LET name == crawlers[Len(The(results)) + 1]
           written == files[name] \cup {Snapshot(SaveName(name), wallclock)}
           old == OldFiles(written, SaveName(name), max_files)
       IN  /\ how \in Endings(name)
           /\ results' = Some(Append(The(results), <<name, ResultOf(how, wallclock)>>))
           /\ ran' = Append(ran, <<name, how>>)
           /\ IF how = RETURNS_DATA
              THEN /\ failing \subseteq old
                   /\ files' = [files EXCEPT ![name] =
                                    SaveData(files[name], SaveName(name), wallclock,
                                             max_files, failing)]
                   /\ contents' = [contents EXCEPT ![name] =
                                       Dumped(contents[name], files'[name], SaveName(name),
                                              wallclock, DataAt(wallclock))]
                   /\ last_save' = Some([category |-> name, name |-> SaveName(name),
                                         stamp |-> wallclock, removed |-> old \ failing,
                                         failed |-> failing])
              ELSE /\ failing = {}
                   /\ UNCHANGED <<files, contents, last_save>>
    /\ UNCHANGED <<retry_count, pos, data, log, fetched, max_files, summary, wallclock>>
    /\ UNCHANGED <<dbVars, coordVars, schedVars, facadeVars, openVars>>

\* lines 428-443: the summary file, and the return
crawl_all_summary ==
    /\ results # NONE
    /\ Len(The(results)) = Len(crawlers)
    /\ summary' = Some(Summary(The(results), wallclock))
    /\ results' = NONE
    /\ UNCHANGED <<retry_count, pos, data, log, fetched, ran>>
    /\ UNCHANGED <<max_files, files, contents, wallclock, last_save>>
    /\ UNCHANGED <<dbVars, coordVars, schedVars, facadeVars, openVars>>

InitAll ==
    /\ InitStore /\ OpenIdle /\ CoordIdle /\ FetchIdle /\ SchedIdle /\ FacadeIdle
    /\ max_files \in 0..MaxKeep
    /\ files = [c \in Categories |-> {}]
    /\ contents = [c \in Categories |-> <<>>]
    /\ summary = NONE
    /\ wallclock = 0
    /\ last_save = NONE

\* the files the cleanup of the next call tries to remove
Removable ==
    IF results = NONE \/ Len(The(results)) = Len(crawlers) THEN {}
    ELSE LET name == crawlers[Len(The(results)) + 1]
         IN  OldFiles(files[name] \cup {Snapshot(SaveName(name), wallclock)},
                      SaveName(name), max_files)

NextAll ==
    \/ Sleep
    \/ crawl_all_begin
    \/ \E how \in {RAISES, RETURNS_NONE, RETURNS_DATA} :
           \* os.remove fails on none of them or on each of them (NextFiles
           \* has every subset)
           \E failing \in {{}, Removable} : crawl_all_call(how, failing)
    \/ crawl_all_summary

SpecAll == InitAll /\ [][NextAll]_vars

(***************************************************************************)
(* scheduler.py: run_crawl, statement by statement, for each thread that   *)
(* invokes it.  main() invokes it from the one thread that runs the        *)
(* schedule loop; the guard on crawler_status["running"] is there for      *)
(* invocations that overlap.                                               *)
(***************************************************************************)
MaxCycles == 2
Modes == {"full", "realtime"}

\* lines 86-88: the guard
Guard(t, m) ==
    /\ pc[t] = "idle"
    /\ crawler_status.crawl_count + crawler_status.error_count < MaxCycles
    /\ mode' = [mode EXCEPT ![t] = m]
    /\ IF crawler_status.running
       THEN /\ pc' = pc
            /\ cycle' = [cycle EXCEPT ![t] = [NoCycle EXCEPT !.did = {"refused"}]]
       ELSE /\ pc' = [pc EXCEPT ![t] = "L90"]
            /\ cycle' = [cycle EXCEPT ![t] = NoCycle]
    /\ UNCHANGED crawler_status
    /\ UNCHANGED <<dbVars, coordVars, fetchVars, fileVars, facadeVars, openVars>>

\* lines 90-95: the credentials of the environment
Credentials(t, present) ==
    /\ pc[t] = "L90"
    /\ pc' = [pc EXCEPT ![t] = IF present THEN "L97" ELSE "idle"]
    /\ cycle' = [cycle EXCEPT ![t].did = IF present THEN @ ELSE {"no credentials"}]
    /\ UNCHANGED <<crawler_status, mode>>
    /\ UNCHANGED <<dbVars, coordVars, fetchVars, fileVars, facadeVars, openVars>>

\* line 97
SetRunning(t) ==
    /\ pc[t] = "L97"
    /\ cycle' = [cycle EXCEPT ![t].entry = Some(crawler_status)]
    /\ crawler_status' = [crawler_status EXCEPT !.running = TRUE]
    /\ pc' = [pc EXCEPT ![t] = "L100"]
    /\ UNCHANGED mode
    /\ UNCHANGED <<dbVars, coordVars, fetchVars, fileVars, facadeVars, openVars>>

\* lines 100-103: UBIKAISCrawler(...), crawler.login()
Login(t, ok) ==
    /\ pc[t] = "L100"
    /\ cycle' = [cycle EXCEPT ![t].login = IF ok THEN "ok" ELSE "failed",
                              ![t].did = @ \cup {"login"}]
    /\ pc' = [pc EXCEPT ![t] = IF ok THEN "L105" ELSE "L117"]
    /\ UNCHANGED <<crawler_status, mode>>
    /\ UNCHANGED <<dbVars, coordVars, fetchVars, fileVars, facadeVars, openVars>>

\* lines 105-110: crawl_all or crawl_realtime, which returns or raises
Crawl(t, ok) ==
    /\ pc[t] = "L105"
    /\ cycle' = [cycle EXCEPT ![t].did =
                     @ \cup {IF mode[t] = "full" THEN "crawl_all" ELSE "crawl_realtime"}]
    /\ pc' = [pc EXCEPT ![t] = IF ok THEN "L112" ELSE "L117"]
    /\ UNCHANGED <<crawler_status, mode>>
    /\ UNCHANGED <<dbVars, coordVars, fetchVars, fileVars, facadeVars, openVars>>

OnSuccessWithoutCount(status, t) ==
    [status EXCEPT !.last_crawl = Time(t), !.last_success = TRUE]

\* lines 112-114
OnSuccess(status, t) ==
    [status EXCEPT !.last_crawl = Time(t), !.last_success = TRUE, !.crawl_count = @ + 1]

Success(t) ==
    /\ pc[t] = "L112"
    /\ crawler_status' = OnSuccess(crawler_status, wallclock)
    /\ pc' = [pc EXCEPT ![t] = "L122"]
    /\ UNCHANGED <<mode, cycle>>
    /\ UNCHANGED <<dbVars, coordVars, fetchVars, fileVars, facadeVars, openVars>>

OnExceptionAsSuccess(status) ==
    [status EXCEPT !.last_success = TRUE, !.crawl_count = @ + 1]

\* lines 119-120
OnException(status) ==
    [status EXCEPT !.last_success = FALSE, !.error_count = @ + 1]

Except(t) ==
    /\ pc[t] = "L117"
    /\ crawler_status' = OnException(crawler_status)
    /\ pc' = [pc EXCEPT ![t] = "L122"]
    /\ UNCHANGED <<mode, cycle>>
    /\ UNCHANGED <<dbVars, coordVars, fetchVars, fileVars, facadeVars, openVars>>

FinallyKeepingRunning(t) ==
    /\ pc[t] = "L122"
    /\ pc' = [pc EXCEPT ![t] = "idle"]
    /\ UNCHANGED <<crawler_status, mode, cycle>>
    /\ UNCHANGED <<dbVars, coordVars, fetchVars, fileVars, facadeVars, openVars>>

\* lines 122-123
Finally(t) ==
    /\ pc[t] = "L122"
    /\ crawler_status' = [crawler_status EXCEPT !.running = FALSE]
    /\ pc' = [pc EXCEPT ![t] = "idle"]
    /\ UNCHANGED <<mode, cycle>>
    /\ UNCHANGED <<dbVars, coordVars, fetchVars, fileVars, facadeVars, openVars>>

run_crawl(t) ==
    \/ \E m \in Modes : Guard(t, m)
    \/ \E present \in BOOLEAN : Credentials(t, present)
    \/ SetRunning(t)
    \/ \E ok \in BOOLEAN : Login(t, ok)
    \/ \E ok \in BOOLEAN : Crawl(t, ok)
    \/ Success(t)
    \/ Except(t)
    \/ Finally(t)

InitSched ==
    /\ InitStore /\ OpenIdle /\ CoordIdle /\ FetchIdle /\ FilesIdle /\ FacadeIdle
    /\ SchedIdle

\* main(): the schedule loop runs its jobs one after the other in one thread
NextSched ==
    \/ run_crawl(1)
    \/ Tick

SpecSched == InitSched /\ [][NextSched]_vars

\* an invocation that has passed the guard runs on: every statement of
\* run_crawl returns or raises (the requests of the crawler have timeouts)
Proceed(t) ==
    \/ \E present \in BOOLEAN : Credentials(t, present)
    \/ SetRunning(t)
    \/ \E ok \in BOOLEAN : Login(t, ok)
    \/ \E ok \in BOOLEAN : Crawl(t, ok)
    \/ Success(t)
    \/ Except(t)
    \/ Finally(t)

SpecSchedFair == SpecSched /\ WF_vars(Proceed(1))

\* run_crawl invoked from several threads
NextSchedThreads ==
    \/ \E t \in Threads : run_crawl(t)
    \/ Tick

SpecSchedThreads == InitSched /\ [][NextSchedThreads]_vars

(***************************************************************************)
(* lambda_handler.py: the query facade.  It reads the SQLite file that S3  *)
(* holds under S3_KEY, copied to DB_PATH on first use.  A database is a    *)
(* function from table names to NONE (no such table) or Some(rows).        *)
(***************************************************************************)
MaxLimit == 2

FacadeTables == {"crawl_logs", "flight_plans", "weather", "notams"}
NoTables == [t \in FacadeTables |-> NONE]
EmptyTables == [t \in FacadeTables |-> Some({})]

\* text is a sequence of characters
RKPC == <<"R", "K", "P", "C">>
RKPU == <<"R", "K", "P", "U">>
KAL1 == <<"K", "A", "L", "1">>
AAR2 == <<"A", "A", "R", "2">>
HL77 == <<"H", "L", "7", "7">>
HL88 == <<"H", "L", "8", "8">>
METAR == <<"m", "e", "t", "a", "r">>
TAF == <<"t", "a", "f">>
DEPARTURE == <<"d", "e", "p">>
ARRIVAL == <<"a", "r", "r">>

FlightRow(n, type, flight, reg, from, to) ==
    [id |-> n, plan_type |-> type, flight_number |-> flight, registration |-> reg,
     origin |-> from, destination |-> to, aircraft_type |-> "B738",
     status |-> "DEP", std |-> n, sta |-> n, created_at |-> n]
WeatherRow(n, type, at) ==
    [id |-> n, weather_type |-> type, airport |-> at, created_at |-> n]
NotamRow(n, type, at) ==
    [id |-> n, notam_type |-> type, location |-> at, created_at |-> n]

FilledTables ==
    [crawl_logs |-> Some({[crawl_timestamp |-> 1], [crawl_timestamp |-> 2]}),
     flight_plans |-> Some({FlightRow(1, DEPARTURE, KAL1, HL77, RKSI, RKPC),
                            FlightRow(2, ARRIVAL, KAL1, HL77, RKPC, RKSI),
                            FlightRow(3, DEPARTURE, AAR2, HL88, RKSI, RKPU)}),
     weather |-> Some({WeatherRow(1, METAR, RKSI), WeatherRow(2, METAR, RKSI),
                       WeatherRow(3, TAF, RKPC)}),
     notams |-> Some({NotamRow(1, <<"A">>, RKSI), NotamRow(2, <<"A">>, RKPC),
                      NotamRow(3, <<"C">>, RKSI)})]

\* the databases the S3 object may hold
FacadeStores ==
    {FilledTables, EmptyTables, NoTables,
     [FilledTables EXCEPT !.weather = NONE],
     [FilledTables EXCEPT !.crawl_logs = NONE]}

\* int(x) of a str: digits with an optional sign; ValueError otherwise
PyInt(x) ==
    IF x # <<>> /\ AllDigits(x) THEN [ok |-> TRUE, val |-> DigitsVal(x)]
    ELSE IF Len(x) > 1 /\ x[1] \in {"-", "+"} /\ AllDigits(Tail(x))
         THEN [ok |-> TRUE, val |-> IF x[1] = "-" THEN 0 - DigitsVal(Tail(x))
                                    ELSE DigitsVal(Tail(x))]
    ELSE [ok |-> FALSE, val |-> 0]

\* ORDER BY <column> DESC
RECURSIVE OrderByDesc(_, _)
OrderByDesc(rows, column) ==
    IF rows = {} THEN <<>>
    ELSE LET m == CHOOSE r \in rows : \A q \in rows : q[column] <= r[column]
         IN  <<m>> \o OrderByDesc(rows \ {m}, column)

\* LIMIT n: a negative n is no limit
Limit(rows, n) ==
    IF n < 0 \/ n >= Len(rows) THEN rows ELSE SubSeq(rows, 1, n)

CursorExecuteDeleting(conn, table) ==
    IF conn.tables[table] = NONE
    THEN [raised |-> {"OperationalError"}, rows |-> {}, tables |-> conn.tables]
    ELSE [raised |-> {}, rows |-> The(conn.tables[table]),
          tables |-> [conn.tables EXCEPT ![table] = Some({})]]

\* cursor.execute('SELECT ... FROM <table> ...'): the rows of the table or the
\* exception, and the database afterwards
CursorExecute(conn, table) ==
    IF conn.tables[table] = NONE
    THEN [raised |-> {"OperationalError"}, rows |-> {}, tables |-> conn.tables]
    ELSE [raised |-> {}, rows |-> The(conn.tables[table]), tables |-> conn.tables]

\* the rows a WHERE clause chooses among
Rows(conn, table) ==
    IF conn.tables[table] = NONE THEN {} ELSE The(conn.tables[table])

\* 'SELECT * FROM <table> WHERE ... ORDER BY <column> DESC LIMIT <n>' and
\* fetchall(); matching is the set of rows the WHERE clause accepts
Select(conn, table, matching, column, n) ==
    LET x == CursorExecute(conn, table)
    IN  [raised |-> x.raised,
         rows |-> Limit(OrderByDesc(x.rows \cap matching, column), n),
         tables |-> x.tables]

\* get_db_connection: the connection, and the files afterwards
get_db_connection(s3_ok) ==
    IF tmp_db # NONE
    THEN [tables |-> The(tmp_db), row_factory |-> TRUE, tmp |-> tmp_db, cwd |-> cwd_db,
          file |-> "tmp"]
    ELSE IF s3_ok /\ s3_db # NONE
    THEN [tables |-> The(s3_db), row_factory |-> TRUE, tmp |-> s3_db, cwd |-> cwd_db,
          file |-> "tmp"]
    ELSE [tables |-> IF cwd_db = NONE THEN NoTables ELSE The(cwd_db),
          row_factory |-> FALSE, tmp |-> tmp_db,
          cwd |-> IF cwd_db = NONE THEN Some(NoTables) ELSE cwd_db,
          file |-> "cwd"]

\* str.upper()
LowerCase == <<"a", "b", "c", "d", "e", "f", "g", "h", "i", "j", "k", "l", "m",
               "n", "o", "p", "q", "r", "s", "t", "u", "v", "w", "x", "y", "z">>
UpperCase == <<"A", "B", "C", "D", "E", "F", "G", "H", "I", "J", "K", "L", "M",
               "N", "O", "P", "Q", "R", "S", "T", "U", "V", "W", "X", "Y", "Z">>
upper(text) ==
    [i \in 1..Len(text) |->
        IF \E k \in 1..Len(LowerCase) : LowerCase[k] = text[i]
        THEN UpperCase[CHOOSE k \in 1..Len(LowerCase) : LowerCase[k] = text[i]]
        ELSE text[i]]

\* <value> LIKE '%<part>%': SQLite's LIKE ignores the case of ASCII letters
Like(value, part) ==
    \E i \in 0..(Len(value) - Len(part)) :
        \A k \in 1..Len(part) : upper(value)[i + k] = upper(part)[k]

\* params.get(key, default), and the truth of a str
ParamOr(value, default) == IF value = NONE THEN default ELSE value
Given(value) == value # NONE /\ value # <<>>

DefaultLimit == 100
DefaultWeatherLimit == 50
SearchLimit == 10
LocationLimit == 50

\* int(params.get('limit', <default>))
LimitOf(params, default) ==
    IF params.limit = NONE THEN [ok |-> TRUE, val |-> default] ELSE PyInt(params.limit)

ALLOWED_ORIGINS ==
    {"https://rkpu-viewer.vercel.app", "https://tbas.vercel.app",
     "http://localhost:5173", "http://localhost:3000"}

\* str.strip() of a text whose blanks are " "
strip(text) ==
    LET solid == {i \in 1..Len(text) : text[i] # " "}
    IN  IF solid = {} THEN <<>>
        ELSE SubSeq(text, CHOOSE i \in solid : \A j \in solid : i <= j,
                          CHOOSE i \in solid : \A j \in solid : i >= j)

\* [o.strip() for o in os.environ.get('CORS_ALLOWED_ORIGINS', '').split(',')
\*  if o.strip()]; the value is a text whose characters are ",", " " and
\* whole origins
extra_origins(value) ==
    LET parts == Split(value, ",")
    IN  {strip(parts[i]) : i \in 1..Len(parts)} \ {<<>>}

CreateResponseEchoingOrigin(status_code, body, origin) ==
    [statusCode |-> status_code,
     headers |-> [ContentType |-> "application/json",
                  AllowMethods |-> "GET, POST, OPTIONS",
                  AllowHeaders |-> "Content-Type",
                  ContentTypeOptions |-> "nosniff",
                  AllowOrigin |-> origin],
     body |-> body]

create_response(status_code, body, origin) ==
    [statusCode |-> status_code,
     headers |-> [ContentType |-> "application/json",
                  AllowMethods |-> "GET, POST, OPTIONS",
                  AllowHeaders |-> "Content-Type",
                  ContentTypeOptions |-> "nosniff",
                  AllowOrigin |-> IF /\ origin # NONE
                                     /\ \/ The(origin) \in ALLOWED_ORIGINS
                                        \/ <<The(origin)>> \in extra_origins(cors_env)
                                  THEN origin ELSE NONE],
     body |-> body]

\* what a handler leaves behind: its response, the exceptions raised on the
\* way, and the two database files
Served(resp, exceptions, conn, tables) ==
    [response |-> resp, raised |-> exceptions,
     tmp |-> IF conn.file = "tmp" THEN Some(tables) ELSE conn.tmp,
     cwd |-> IF conn.file = "cwd" THEN Some(tables) ELSE conn.cwd]
Answered(resp) ==
    [response |-> resp, raised |-> {}, tmp |-> tmp_db, cwd |-> cwd_db]

Message(exceptions) ==
    IF "ValueError" \in exceptions THEN "invalid literal for int() with base 10"
    ELSE IF "OperationalError" \in exceptions THEN "no such table"
    ELSE IF "TypeError" \in exceptions THEN "tuple indices must be integers or slices, not str"
    ELSE "'tuple' object has no attribute 'keys'"

\* the except branch of a handler
ServerError(exceptions, conn, tables) ==
    Served(create_response(HTTP_ERROR, [status |-> "error", message |-> Message(exceptions)],
                           NONE),
           exceptions, conn, tables)

\* [dict_from_row(row) for row in rows]: a plain tuple has no keys()
DictsRaise(conn, rows) == ~conn.row_factory /\ rows # <<>>

\* the body of a handler's try block up to its rows: the limit, one SELECT,
\* and dict_from_row on every row
Query(conn, limit, table, matching, column) ==
    IF ~limit.ok
    THEN [raised |-> {"ValueError"}, rows |-> <<>>, tables |-> conn.tables]
    ELSE LET q == Select(conn, table, matching, column, limit.val)
         IN  IF q.raised = {} /\ DictsRaise(conn, q.rows)
             THEN [raised |-> {"AttributeError"}, rows |-> <<>>, tables |-> q.tables]
             ELSE q

Fixed(n) == [ok |-> TRUE, val |-> n]

\* the success response of a handler, or its except branch
Respond(conn, q, payload) ==
    IF q.raised # {} THEN ServerError(q.raised, conn, q.tables)
    ELSE Served(create_response(HTTP_OK, [status |-> "success", data |-> payload], NONE),
                {}, conn, q.tables)

handle_flights(params, conn) ==
    LET matching == {r \in Rows(conn, "flight_plans") :
                        Given(params.type) => r.plan_type = params.type}
        q == Query(conn, LimitOf(params, DefaultLimit), "flight_plans", matching,
                   "created_at")
    IN  Respond(conn, q, [count |-> Len(q.rows), flights |-> q.rows])

handle_departures(params, conn) ==
    LET matching == {r \in Rows(conn, "flight_plans") :
                        /\ r.plan_type = DEPARTURE
                        /\ Given(params.airport) => Like(r.origin, params.airport)}
        q == Query(conn, LimitOf(params, DefaultLimit), "flight_plans", matching, "std")
    IN  Respond(conn, q, [count |-> Len(q.rows), departures |-> q.rows])

handle_arrivals(params, conn) ==
    LET matching == {r \in Rows(conn, "flight_plans") :
                        /\ r.plan_type = ARRIVAL
                        /\ Given(params.airport) => Like(r.destination, params.airport)}
        q == Query(conn, LimitOf(params, DefaultLimit), "flight_plans", matching, "sta")
    IN  Respond(conn, q, [count |-> Len(q.rows), arrivals |-> q.rows])

handle_weather(params, conn) ==
    LET weather_type == ParamOr(params.type, METAR)
        matching == {r \in Rows(conn, "weather") :
                        /\ r.weather_type = weather_type
                        /\ Given(params.airport) => Like(r.airport, params.airport)}
        q == Query(conn, LimitOf(params, DefaultWeatherLimit), "weather", matching,
                   "created_at")
    IN  Respond(conn, q, [type |-> weather_type, count |-> Len(q.rows),
                          weather |-> q.rows])

handle_notam(params, conn) ==
    LET matching == {r \in Rows(conn, "notams") :
                        /\ Given(params.type) => r.notam_type = params.type
                        /\ Given(params.location) => Like(r.location, params.location)}
        q == Query(conn, LimitOf(params, DefaultLimit), "notams", matching, "created_at")
    IN  Respond(conn, q, [count |-> Len(q.rows), notams |-> q.rows])

handle_notam_by_location(location, conn) ==
    LET matching == {r \in Rows(conn, "notams") : Like(r.location, upper(location))}
        q == Query(conn, Fixed(LocationLimit), "notams", matching, "created_at")
    IN  Respond(conn, q, [location |-> location, count |-> Len(q.rows),
                          notams |-> q.rows])

HTTP_BAD_REQUEST == 400
HTTP_NOT_FOUND == 404

\* the connection after a statement
After(conn, q) == [conn EXCEPT !.tables = q.tables]

\* cursor.fetchone() of a SELECT ... LIMIT 1: the row, or 404 without one
One(conn, q, missing) ==
    IF q.raised = {} /\ q.rows = <<>>
    THEN Served(create_response(HTTP_NOT_FOUND,
                    [status |-> "error", message |-> missing], NONE),
                {}, conn, q.tables)
    ELSE Respond(conn, q, q.rows[1])

handle_metar(airport, conn) ==
    LET matching == {r \in Rows(conn, "weather") :
                        r.weather_type = METAR /\ Like(r.airport, upper(airport))}
    IN  One(conn, Query(conn, Fixed(1), "weather", matching, "created_at"),
            "METAR not found")

handle_taf(airport, conn) ==
    LET matching == {r \in Rows(conn, "weather") :
                        r.weather_type = TAF /\ Like(r.airport, upper(airport))}
    IN  One(conn, Query(conn, Fixed(1), "weather", matching, "created_at"),
            "TAF not found")

handle_index ==
    Answered(create_response(HTTP_OK, [name |-> "UBIKAIS API", version |-> "1.0.0"], NONE))

handle_airports ==
    Answered(create_response(HTTP_OK,
                 [status |-> "success", data |-> [count |-> 15]], NONE))

handle_airport_info(icao) ==
    IF upper(icao) = RKPU
    THEN Answered(create_response(HTTP_OK,
                      [status |-> "success", data |-> [icao |-> RKPU]], NONE))
    ELSE Answered(create_response(HTTP_NOT_FOUND,
                      [status |-> "error", message |-> "Airport not found"], NONE))

handle_status(conn) ==
    LET online(exceptions, c) ==
            Served(create_response(HTTP_OK,
                       [status |-> "success",
                        data |-> [status |-> "online",
                                  message |-> Message(exceptions)]], NONE),
                   exceptions, conn, c.tables)
        last == Select(conn, "crawl_logs", Rows(conn, "crawl_logs"), "crawl_timestamp", 1)
        c0 == After(conn, last)
        q1 == Select(c0, "flight_plans", Rows(c0, "flight_plans"), "created_at", 0 - 1)
        c1 == After(c0, q1)
        q2 == Select(c1, "weather", Rows(c1, "weather"), "created_at", 0 - 1)
        c2 == After(c1, q2)
        q3 == Select(c2, "notams", Rows(c2, "notams"), "created_at", 0 - 1)
        c3 == After(c2, q3)
        \* fetchone()['count'] of a plain tuple is a TypeError; the bare
        \* except of the loop turns every exception into a count of 0
        subscript == IF conn.row_factory THEN {} ELSE {"TypeError"}
        count(q) == IF q.raised # {} \/ ~conn.row_factory THEN 0 ELSE Len(q.rows)
        inner == UNION {IF q.raised # {} THEN q.raised ELSE subscript : q \in {q1, q2, q3}}
    IN  IF last.raised # {} THEN online(last.raised, c0)
        ELSE IF ~conn.row_factory THEN online(inner \cup {"TypeError"}, c3)
        ELSE Served(create_response(HTTP_OK,
                        [status |-> "success",
                         data |-> [status |-> "online",
                                   last_crawl |-> IF last.rows = <<>> THEN NONE
                                                  ELSE Some(last.rows[1].crawl_timestamp),
                                   records |-> [flight_plans |-> count(q1),
                                                weather |-> count(q2),
                                                notams |-> count(q3)]]], NONE),
                    inner, conn, c3.tables)

handle_flight_search(params, s3_ok) ==
    LET flight_number == ParamOr(params.flight, params.callsign)
        conn == get_db_connection(s3_ok)
        matching == {r \in Rows(conn, "flight_plans") :
                        Like(r.flight_number, upper(flight_number))}
        q == Query(conn, Fixed(SearchLimit), "flight_plans", matching, "created_at")
    IN  IF ~Given(flight_number)
        THEN Answered(create_response(HTTP_BAD_REQUEST,
                          [status |-> "error", message |-> "flight parameter required"],
                          NONE))
        ELSE Respond(conn, q, [found |-> Len(q.rows) > 0, count |-> Len(q.rows),
                               flights |-> q.rows])

RouteAnswering404(params, s3_ok) ==
    LET conn == get_db_connection(s3_ok)
        matching == {r \in Rows(conn, "flight_plans") :
                        \/ Given(params.callsign)
                              /\ Like(r.flight_number, upper(params.callsign))
                        \/ Given(params.reg)
                              /\ upper(r.registration) = upper(params.reg)}
    IN  IF ~Given(params.callsign) /\ ~Given(params.reg)
        THEN Answered(create_response(HTTP_BAD_REQUEST,
                          [status |-> "error", message |-> "callsign or reg required"],
                          NONE))
        ELSE One(conn, Query(conn, Fixed(1), "flight_plans", matching, "created_at"),
                 "Flight not found")

handle_flight_route(params, s3_ok) ==
    LET callsign == params.callsign
        reg == params.reg
        conn == get_db_connection(s3_ok)
        byCallsign == {r \in Rows(conn, "flight_plans") :
                          Like(r.flight_number, upper(callsign))}
        byReg == {r \in Rows(conn, "flight_plans") :
                     upper(r.registration) = upper(reg)}
        q1 == IF Given(callsign) THEN Select(conn, "flight_plans", byCallsign, "created_at", 1)
              ELSE [raised |-> {}, rows |-> <<>>, tables |-> conn.tables]
        c1 == After(conn, q1)
        q2 == IF q1.rows = <<>> /\ Given(reg)
              THEN Select(c1, "flight_plans", byReg, "created_at", 1)
              ELSE [raised |-> {}, rows |-> <<>>, tables |-> c1.tables]
        rows == q1.rows \o q2.rows
        flight == rows[1]
    IN  IF ~Given(callsign) /\ ~Given(reg)
        THEN Answered(create_response(HTTP_BAD_REQUEST,
                          [status |-> "error", message |-> "callsign or reg required"],
                          NONE))
        ELSE IF q1.raised # {} THEN ServerError(q1.raised, conn, q1.tables)
        ELSE IF DictsRaise(conn, q1.rows) THEN ServerError({"AttributeError"}, conn, q1.tables)
        ELSE IF q2.raised # {} THEN ServerError(q2.raised, conn, q2.tables)
        ELSE IF DictsRaise(conn, q2.rows) THEN ServerError({"AttributeError"}, conn, q2.tables)
        ELSE IF rows # <<>>
        THEN Served(create_response(HTTP_OK,
                        [source |-> Some("ubikais"),
                         callsign |-> flight.flight_number,
                         origin |-> Some([icao |-> flight.origin]),
                         destination |-> Some([icao |-> flight.destination]),
                         aircraft |-> [type |-> flight.aircraft_type,
                                       registration |-> flight.registration],
                         status |-> flight.status], NONE),
                    {}, conn, q2.tables)
        ELSE Served(create_response(HTTP_OK,
                        [source |-> NONE, origin |-> NONE, destination |-> NONE], NONE),
                    {}, conn, q2.tables)

\* a path is one of the prefixes the router knows, and the rest of it
Path(prefix, rest) == [prefix |-> prefix, rest |-> rest]

\* handler(event, context): the routing
Route(e, s3_ok) ==
    LET path == e.path
        exact(p) == path.prefix = p /\ path.rest = <<>>
        startswith(p) == path.prefix = p
        conn == get_db_connection(s3_ok)
    IN  IF e.httpMethod = "OPTIONS"
        THEN Answered(create_response(HTTP_OK, [status |-> "ok"], e.origin))
        ELSE IF exact("/") \/ exact("/api") THEN handle_index
        ELSE IF exact("/api/status") THEN handle_status(conn)
        ELSE IF exact("/api/flights") THEN handle_flights(e.params, conn)
        ELSE IF exact("/api/flights/departures") THEN handle_departures(e.params, conn)
        ELSE IF exact("/api/flights/arrivals") THEN handle_arrivals(e.params, conn)
        ELSE IF exact("/api/flights/search") THEN handle_flight_search(e.params, s3_ok)
        ELSE IF exact("/api/flights/route") THEN handle_flight_route(e.params, s3_ok)
        ELSE IF exact("/api/weather") THEN handle_weather(e.params, conn)
        ELSE IF startswith("/api/weather/metar/") THEN handle_metar(path.rest, conn)
        ELSE IF startswith("/api/weather/taf/") THEN handle_taf(path.rest, conn)
        ELSE IF exact("/api/notam") THEN handle_notam(e.params, conn)
        ELSE IF startswith("/api/notam/") THEN handle_notam_by_location(path.rest, conn)
        ELSE IF exact("/api/airports") THEN handle_airports
        ELSE IF startswith("/api/airports/") THEN handle_airport_info(path.rest)
        ELSE Answered(create_response(HTTP_NOT_FOUND,
                          [status |-> "error", message |-> "Not found"], NONE))

\* the requests: queryStringParameters with every key the handlers read
NoParams ==
    [type |-> NONE, limit |-> NONE, airport |-> NONE, location |-> NONE,
     flight |-> NONE, callsign |-> NONE, reg |-> NONE]

LimitTexts ==
    {<<Digits[n + 1]>> : n \in 0..MaxLimit}
        \cup {<<"-", "1">>, <<"a", "b", "c">>, <<"1", ".", "5">>, <<>>}

ListPaths ==
    {"/api/flights", "/api/flights/departures", "/api/flights/arrivals",
     "/api/weather", "/api/notam"}

Request(method, path, params, origin) ==
    [httpMethod |-> method, path |-> path, params |-> params, origin |-> origin]

Events ==
    {Request("GET", Path(p, <<>>), [NoParams EXCEPT !.limit = l], NONE) :
        p \in ListPaths, l \in LimitTexts \cup {NONE}}
    \cup {Request("GET", Path(p, <<>>), q, NONE) :
            p \in ListPaths,
            q \in {[NoParams EXCEPT !.type = DEPARTURE],
                   [NoParams EXCEPT !.type = TAF, !.airport = <<"r", "k", "p">>],
                   [NoParams EXCEPT !.type = <<"A">>, !.location = <<"s", "i">>]}}
    \cup {Request("GET", Path(p, <<>>), q, NONE) :
            p \in {"/api/flights/search", "/api/flights/route"},
            q \in {NoParams,
                   [NoParams EXCEPT !.flight = <<"k", "a", "l">>],
                   [NoParams EXCEPT !.callsign = <<"a", "a", "r">>],
                   [NoParams EXCEPT !.callsign = <<"x">>],
                   [NoParams EXCEPT !.callsign = <<>>],
                   [NoParams EXCEPT !.callsign = <<"x">>, !.reg = <<"h", "l", "7", "7">>],
                   [NoParams EXCEPT !.reg = <<"H", "L">>]}}
    \cup {Request("GET", Path(p, r), NoParams, NONE) :
            p \in {"/api/weather/metar/", "/api/weather/taf/", "/api/notam/",
                   "/api/airports/"},
            r \in {<<>>, <<"r", "k", "s", "i">>, RKPU}}
    \cup {Request(m, Path(p, <<>>), NoParams, o) :
            m \in {"GET", "POST"},
            p \in {"/", "/api", "/api/status", "/api/airports", "/api/flights", "/nowhere"},
            o \in {NONE, Some("https://tbas.vercel.app")}}
    \cup {Request("OPTIONS", Path("/api/flights", <<>>), NoParams, o) :
            o \in {NONE, Some("https://tbas.vercel.app"), Some("https://example.com")}}

\* handler(event, context)
handler(e, s3_ok) ==
    LET r == Route(e, s3_ok)
    IN  /\ event' = Some(e)
        /\ response' = Some(r.response)
        /\ raised' = r.raised
        /\ tmp_db' = r.tmp
        /\ cwd_db' = r.cwd
        /\ UNCHANGED <<s3_db, cors_env, dbVars, coordVars, fetchVars, fileVars, schedVars,
                       openVars>>

InitFacade ==
    /\ InitStore /\ OpenIdle /\ CoordIdle /\ FetchIdle /\ FilesIdle /\ SchedIdle
    /\ s3_db \in {Some(c) : c \in FacadeStores}
    /\ tmp_db \in {NONE, s3_db}
    /\ cwd_db \in {NONE, Some(FilledTables)}
    /\ event = NONE
    /\ response = NONE
    /\ raised = {}
    /\ cors_env = <<>>

\* the download is attempted only while DB_PATH is absent
Downloads == IF tmp_db = NONE THEN BOOLEAN ELSE {TRUE}

NextFacade == \E e \in Events, s3_ok \in Downloads : handler(e, s3_ok)

SpecFacade == InitFacade /\ [][NextFacade]_vars

\* the facade with CORS_ALLOWED_ORIGINS set, asked from several origins
EnvValues ==
    {<<>>,
     <<" ", "https://example.com", " ", ",", ",", "http://localhost:8080">>,
     <<"*", ",", "https://example.com", " ", "https://example.org">>}

Origins ==
    {NONE, Some("https://tbas.vercel.app"), Some("http://localhost:3000"),
     Some("https://example.com"), Some("https://example.org"), Some("*")}

CorsEvents ==
    {Request(m, Path(p, <<>>), NoParams, o) :
        m \in {"GET", "POST", "OPTIONS"},
        p \in {"/", "/api/status", "/api/flights", "/api/flights/route", "/nowhere"},
        o \in Origins}

InitCors ==
    /\ InitStore /\ OpenIdle /\ CoordIdle /\ FetchIdle /\ FilesIdle /\ SchedIdle
    /\ s3_db = Some(FilledTables)
    /\ tmp_db \in {NONE, s3_db}
    /\ cwd_db = NONE
    /\ event = NONE
    /\ response = NONE
    /\ raised = {}
    /\ cors_env \in EnvValues

NextCors == \E e \in CorsEvents, s3_ok \in Downloads : handler(e, s3_ok)

SpecCors == InitCors /\ [][NextCors]_vars

(***************************************************************************)
(* Vocabulary of the properties: the last call, the rows it bound and the  *)
(* records it wrote.                                                       *)
(***************************************************************************)
BatchOps == {"save_notam_fir", "save_notam_ad", "save_snowtam"}
SingleOps ==
    {"save_airport", "save_runway", "save_navaid", "save_obstacle", "save_flight_plan",
     "save_metar"}

TableOf ==
    [save_notam_fir |-> "notam_fir", save_notam_ad |-> "notam_ad",
     save_snowtam |-> "snowtam", save_airport |-> "airports", save_runway |-> "runways",
     save_navaid |-> "navaids", save_obstacle |-> "obstacles",
     save_flight_plan |-> "flight_plans", save_metar |-> "metar"]

\* the upstream names of the identifier of a batch record, in lookup order
KeyCandidates ==
    [save_notam_fir |-> <<"notamId", "notamNo", "id">>,
     save_notam_ad |-> <<"notamId", "notamNo", "id">>,
     save_snowtam |-> <<"snowtamId", "id">>]

\* the column that identifies the entity of a row
IdColumn ==
    [notam_fir |-> "notam_id", notam_ad |-> "notam_id", snowtam |-> "snowtam_id",
     airports |-> "icao_code", runways |-> "runway_id", navaids |-> "navaid_id",
     obstacles |-> "obstacle_id", flight_plans |-> "callsign", metar |-> "airport_icao"]

SavedTables == {TableOf[op] : op \in BatchOps \cup SingleOps}

ParamsOf(op, x, param, day, now) ==
    CASE op = "save_notam_fir" -> notam_fir_params(x, now)
      [] op = "save_notam_ad" -> notam_ad_params(x, param, now)
      [] op = "save_snowtam" -> snowtam_params(x, now)
      [] op = "save_airport" -> airport_params(x, now)
      [] op = "save_runway" -> runway_params(x, param, now)
      [] op = "save_navaid" -> navaid_params(x, now)
      [] op = "save_obstacle" -> obstacle_params(x, now)
      [] op = "save_flight_plan" -> flight_plan_params(x, param, day, now)
      [] op = "save_metar" -> metar_params(x)

LastTable == TableOf[call.op]
LastIdx == 1..Len(call.args)
\* the i-th record of the last call was handled at tick clock - Len + i
LastParams(i) ==
    ParamsOf(call.op, call.args[i], call.param, Date(today), clock - Len(call.args) + i)
LastRow(i) == Affinity(LastTable, LastParams(i))

\* the record carries no identifier: every candidate is missing, null or empty
LacksKey(op, x) ==
    \A n \in 1..Len(KeyCandidates[op]) : ~Truthy(Get(x, KeyCandidates[op][n]))
LastLacksKey(i) == call.op \in BatchOps /\ LacksKey(call.op, call.args[i])

\* the insert of the record raises: one of its values is a nested object
NestedFields(x) == {k \in DOMAIN x : x[k] = OBJ}
LastRaises(i) == ~LastLacksKey(i) /\ NestedFields(call.args[i]) # {}

\* the records the last call wrote, and the id each of them was given
WrittenIdx == {i \in LastIdx : ~LastLacksKey(i) /\ ~LastRaises(i)}
IdOf(i) == seq[LastTable] - Cardinality({j \in WrittenIdx : j > i})

SameKey(t, r1, r2) == \A c \in UniqueKey[t] : r1[c] = r2[c]
KeyPresent(t, r) == \A c \in UniqueKey[t] : r[c] # NONE
\* a later record of the same call carries the same natural key
Superseded(i) ==
    \E j \in WrittenIdx : j > i /\ SameKey(LastTable, LastRow(j), LastRow(i))
MatchesRow(r, row) == \A c \in DOMAIN row : r[c] = row[c]

(***************************************************************************)
(* C1: after any sequence of save operations no table holds two rows with  *)
(* the same natural key, an absent key component counting as a key value.  *)
(* The code stores such rows: SQLite holds NULL key components to be       *)
(* distinct, and the operations accept records without them.               *)
(***************************************************************************)
C1_NoTwoRowsWithSameNaturalKey ==
    \A t \in Tables : \A r1, r2 \in db[t] : SameKey(t, r1, r2) => r1 = r2

(***************************************************************************)
(* C2: a save that writes a record whose natural key is present leaves     *)
(* exactly one row with that key, and the row carries the columns mapped   *)
(* from that record (the last one saved); a METAR {ad, obsTime, orgMsg}    *)
(* leaves one row with airport_icao, observation_time and raw_metar taken  *)
(* from ad, obsTime and orgMsg, however often it is saved.                 *)
(***************************************************************************)
IsMetarExample(x) ==
    /\ DOMAIN x = {"ad", "obsTime", "orgMsg"}
    /\ \A k \in DOMAIN x : IsStr(x[k]) /\ x[k] # EMPTY

C2_LastSaveWins ==
    /\ \A i \in WrittenIdx :
          KeyPresent(LastTable, LastRow(i)) /\ ~Superseded(i) =>
              LET hits == {r \in db[LastTable] : SameKey(LastTable, r, LastRow(i))}
              IN  /\ Cardinality(hits) = 1
                  /\ \A r \in hits : MatchesRow(r, LastRow(i))
    /\ call.op = "save_metar" /\ IsMetarExample(call.args[1]) =>
          LET x == call.args[1]
              hits == {r \in db.metar :
                          r.airport_icao = x.ad /\ r.observation_time = x.obsTime}
          IN  /\ ret = TRUE
              /\ Cardinality(hits) = 1
              /\ \A r \in hits : r.raw_metar = x.orgMsg

\* the same METAR has been saved a second time and there is one row of it
C2_Witness ==
    /\ call.op = "save_metar"
    /\ IsMetarExample(call.args[1])
    /\ seq.metar = 2
    /\ Cardinality(db.metar) = 1

(***************************************************************************)
(* C3: a record whose natural-key field resolves to absence is skipped by  *)
(* every save operation, so no stored row has a NULL identifier.  The      *)
(* single-record operations have no such test and store the row.           *)
(***************************************************************************)
C3_KeylessRecordIsSkipped ==
    \A t \in SavedTables : \A r \in db[t] : r[IdColumn[t]] # NONE

(***************************************************************************)
(* C4: a batch save returns the number of rows it wrote; a batch of N      *)
(* records of which exactly one lacks its key, the others carrying         *)
(* pairwise distinct keys and values the store takes, stores N-1 rows and  *)
(* returns N-1; an empty batch returns 0 and leaves the store unchanged.   *)
(***************************************************************************)
OneKeylessRestDistinct ==
    /\ Cardinality({i \in LastIdx : LastLacksKey(i)}) = 1
    /\ \A i \in LastIdx : ~LastRaises(i)
    /\ \A i, j \in WrittenIdx : i # j => ~SameKey(LastTable, LastRow(i), LastRow(j))

C4_BatchReturnsRowsWritten ==
    [][call'.op \in BatchOps =>
          LET t == LastTable'
              n == Len(call'.args)
              written == {r \in db'[t] : r.id > seq[t]}
          IN  /\ ret' = seq'[t] - seq[t]
              /\ n = 0 => ret' = 0 /\ store' = store
              /\ OneKeylessRestDistinct' =>
                    /\ ret' = n - 1
                    /\ Cardinality(written) = n - 1
                    /\ written \subseteq committed'[t]]_vars

\* a batch of two records, one of them without its key, has returned 1
C4_Witness ==
    /\ call.op \in BatchOps
    /\ Len(call.args) = 2
    /\ OneKeylessRestDistinct
    /\ ret = 1
    /\ Cardinality(db[LastTable]) = 1

(***************************************************************************)
(* C5: in a batch save a record whose insert raises is skipped and the     *)
(* batch goes on: every other record that carries its key, before or after *)
(* the failing one, is stored and committed (unless a later record of the  *)
(* batch replaces it), and the count of the records written is returned.   *)
(***************************************************************************)
C5_FailingRecordDoesNotAbortBatch ==
    call.op \in BatchOps =>
        /\ ret = Cardinality(WrittenIdx)
        /\ db = committed
        /\ \A i \in WrittenIdx :
              (\E j \in LastIdx : LastRaises(j)) /\ ~Superseded(i) =>
                  \E r \in committed[LastTable] :
                      r.id = IdOf(i) /\ MatchesRow(r, LastRow(i))

\* the first record of a batch raised and the second one was written
C5_Witness ==
    /\ call.op \in BatchOps
    /\ Len(call.args) = 2
    /\ LastRaises(1)
    /\ WrittenIdx = {2}
    /\ ret = 1
    /\ \E r \in committed[LastTable] : r.id = IdOf(2)

(***************************************************************************)
(* C6: when one non-key field of a record cannot be converted (a nested    *)
(* object), the row is still stored, with that field absent and the other  *)
(* fields mapped.  The code binds the nested object, the insert raises and *)
(* the row is dropped.                                                     *)
(***************************************************************************)
NullOut(row, params) == [c \in DOMAIN row |-> IF params[c] = OBJ THEN NONE ELSE row[c]]

C6_RowStoredWithFieldAbsent ==
    \A i \in LastIdx :
        LET x == call.args[i]
            nulled == NullOut(LastRow(i), LastParams(i))
        IN  /\ ~LastLacksKey(i)
            /\ Cardinality(NestedFields(x)) = 1
            /\ KeyPresent(LastTable, nulled)
            /\ ~Superseded(i)
            => \E r \in db[LastTable] :
                  \A c \in DOMAIN nulled \ {"raw_data"} : r[c] = nulled[c]

(***************************************************************************)
(* C7: every row stored by a save operation carries raw_data, the JSON     *)
(* serialisation of the upstream record it was mapped from.  The metar     *)
(* table has no raw_data column and save_metar binds none.                 *)
(***************************************************************************)
PoolOf ==
    [notam_fir |-> NotamPool, notam_ad |-> NotamPool, snowtam |-> SnowtamPool,
     airports |-> AirportPool, runways |-> RunwayPool, navaids |-> NavaidPool,
     obstacles |-> ObstaclePool, flight_plans |-> FlightPlanPool, metar |-> MetarPool]

C7_EveryRowCarriesRawData ==
    \A t \in SavedTables : \A r \in db[t] :
        /\ "raw_data" \in DOMAIN r
        /\ \E x \in PoolOf[t] : r.raw_data = JsonDumps(x)

(***************************************************************************)
(* C8: each canonical field holds the value of the first candidate key, in *)
(* the declared order, that is present and non-null: a primary value of 0  *)
(* or '' is stored and is replaced neither by an alias nor by absence.     *)
(* Stated for the fields of save_metar and save_notam_fir that have an     *)
(* alias; the code takes the first candidate whose value is true.          *)
(***************************************************************************)
Candidates ==
    [save_metar |->
        [airport_icao |-> <<"airport", "ad">>,
         observation_time |-> <<"obsTime", "time">>,
         raw_metar |-> <<"rawMetar", "metar", "orgMsg">>,
         wind_speed |-> <<"windSpeed", "ws">>,
         visibility_m |-> <<"visibility", "vis">>,
         temperature |-> <<"temperature", "temp">>,
         dewpoint |-> <<"dewpoint", "dp">>,
         pressure_hpa |-> <<"pressure", "qnh">>],
     save_notam_fir |->
        [notam_id |-> <<"notamId", "notamNo", "id">>,
         type |-> <<"type", "notamType">>,
         lower_limit |-> <<"lowerLimit", "flLower">>,
         upper_limit |-> <<"upperLimit", "flUpper">>,
         coordinates |-> <<"coordinates", "coord">>,
         location |-> <<"location", "ad">>,
         valid_from |-> <<"validFrom", "fromDt">>,
         valid_to |-> <<"validTo", "toDt">>,
         full_text |-> <<"fullText", "notamText", "eText">>]]

RECURSIVE FirstPresent(_, _)
FirstPresent(x, keys) ==
    IF keys = <<>> THEN NONE
    ELSE IF Get(x, Head(keys)) # NONE THEN x[Head(keys)]
    ELSE FirstPresent(x, Tail(keys))

C8_FirstPresentCandidateWins ==
    call.op \in DOMAIN Candidates =>
        \A i \in WrittenIdx : \A r \in db[LastTable] :
            r.id = IdOf(i) =>
                \A c \in DOMAIN Candidates[call.op] :
                    LET v == FirstPresent(call.args[i], Candidates[call.op][c])
                    IN  r[c] = IF c \in NumericColumns[LastTable]
                               THEN NumAffinity(v) ELSE TextAffinity(v)

(***************************************************************************)
(* C9: _parse_coordinate of a decimal numeric string is that number, for   *)
(* negative strings as for positive ones.  The code takes every string     *)
(* with a "-" for a sexagesimal one and drops the sign.                    *)
(***************************************************************************)
IsDecimalString(s) ==
    /\ IsStr(s)
    /\ s # <<>>
    /\ UnsignedFloat(IF s[1] = "-" THEN Tail(s) ELSE s).ok
DecimalValue(s) ==
    IF s[1] = "-" THEN 0 - UnsignedFloat(Tail(s)).val ELSE UnsignedFloat(s).val

C9_DecimalStringKeepsItsValue ==
    coord_ret # UNSET /\ IsDecimalString(coord_str) =>
        coord_ret = Real(DecimalValue(coord_str) * 3600)

(***************************************************************************)
(* C10: _parse_coordinate of <H><deg>[-<min>[-<sec>]], H one of N S E W,   *)
(* is deg + min/60 + sec/3600, negated for S and W, missing minutes and    *)
(* seconds counting as 0.  The code parses a string without "-" (degrees   *)
(* only) as a plain float, which fails on the hemisphere letter.           *)
(***************************************************************************)
Sexagesimals == SeqsUpTo(NumericTokens, 3) \ {<<>>}
SexagesimalValue(h, c) ==
    LET deg == UnsignedFloat(c[1]).val
        min == IF Len(c) > 1 THEN UnsignedFloat(c[2]).val ELSE 0
        sec == IF Len(c) > 2 THEN UnsignedFloat(c[3]).val ELSE 0
        decimal == deg * 3600 + min * 60 + sec
    IN  IF h \in {<<"S">>, <<"W">>} THEN 0 - decimal ELSE decimal

C10_SexagesimalStringIsConverted ==
    coord_ret # UNSET =>
        \A h \in Hemispheres : \A c \in Sexagesimals :
            coord_str = h \o Join(c, "-") => coord_ret = Real(SexagesimalValue(h, c))

(***************************************************************************)
(* C11: _parse_coordinate never raises, and returns None for the empty     *)
(* string and for every string that is neither a decimal number nor one of *)
(* N S E W followed by numeric components.  The code never raises, but it  *)
(* takes the first character of any string with a "-" for the hemisphere   *)
(* without looking at it, so "37-30" and "X37-27" are given a value.       *)
(***************************************************************************)
IsHemisphereNumeric(s) ==
    /\ IsStr(s)
    /\ Len(s) > 1
    /\ <<s[1]>> \in Hemispheres
    /\ LET parts == Split(Tail(s), "-")
       IN  \A i \in 1..Len(parts) : UnsignedFloat(parts[i]).ok

C11_MalformedStringGivesNone ==
    coord_ret # UNSET =>
        /\ coord_ret = NONE \/ IsReal(coord_ret)
        /\ IsStr(coord_str) /\ ~IsDecimalString(coord_str)
               /\ ~IsHemisphereNumeric(coord_str) => coord_ret = NONE

(***************************************************************************)
(* Vocabulary of the fetch properties.                                     *)
(***************************************************************************)
IsOk(o) == ~o.exception /\ o.status_code = HTTP_OK
Gets == {i \in 1..Len(log) : log[i][1] = "get"}
LastFetch == The(fetched)
\* the attempts of the last fetch that meet a response with status 200
OkAttempts == {k \in 1..Len(LastFetch.outs) : k <= retry_count /\ IsOk(LastFetch.outs[k])}
FirstOk == CHOOSE k \in OkAttempts : \A j \in OkAttempts : k <= j
InCrawlFetch == fetched # NONE /\ LastFetch.op = "_ubikais_fetch" /\ pos # <<>>

(***************************************************************************)
(* C12: _request_with_retry makes at most retry_count GETs; it returns the *)
(* response of the first attempt that meets status 200, having made no GET *)
(* after it; when every attempt fails, by exception or by status, it       *)
(* returns None, and crawl_ubikais stores nothing for that slice and goes  *)
(* on to the next one.                                                     *)
(***************************************************************************)
C12_RetryBudget ==
    InCrawlFetch =>
        /\ Cardinality(Gets) <= retry_count
        /\ OkAttempts # {} =>
               /\ LastFetch.resp = Some(LastFetch.outs[FirstOk])
               /\ Cardinality(Gets) = FirstOk
        /\ OkAttempts = {} =>
               /\ LastFetch.resp = NONE
               /\ LastFetch.ret = NONE
               /\ Cardinality(Gets) = retry_count
               /\ data # NONE
               /\ LastFetch.slice \notin DOMAIN The(data)
               /\ Slices[pos[1]] = LastFetch.slice

\* fail, fail, succeed under the default budget: the third payload is returned
C12_Witness ==
    /\ InCrawlFetch
    /\ retry_count = DefaultRetryCount
    /\ Len(LastFetch.outs) = 3
    /\ LastFetch.outs[1] = EXC
    /\ LastFetch.outs[2] = Response(HTTP_ERROR, TextBody(0))
    /\ LastFetch.resp = Some(Response(HTTP_OK, JsonBody(WithRecords)))
    /\ LastFetch.ret = Some(WithRecords)
    /\ The(data)[LastFetch.slice] = WithRecords

(***************************************************************************)
(* C13: in _request_with_retry every failed attempt that is followed by    *)
(* another attempt is followed first by a sleep of retry_delay * k, k the  *)
(* number of the failed attempt, whether it failed by exception or by a    *)
(* status other than 200.  The code sleeps in the except branch only: an   *)
(* attempt that meets another status is retried at once.                   *)
(***************************************************************************)
AttemptNo(i) == Cardinality({g \in Gets : g <= i})

C13_BackoffBeforeEveryRetry ==
    InCrawlFetch =>
        \A i \in Gets :
            ~IsOk(log[i][2]) /\ (\E j \in Gets : j > i) =>
                log[i + 1] = SLEEP(retry_delay * AttemptNo(i))

(***************************************************************************)
(* C14: a fetch that receives a response with status 200 whose body is not *)
(* JSON returns a sentinel carrying the first 500 characters of the body,  *)
(* not None, in UBIKAISCrawler._make_request and in                        *)
(* UnifiedAviationCrawler._ubikais_fetch alike.  _ubikais_fetch returns    *)
(* None there.                                                             *)
(***************************************************************************)
Truncated(n) == IF n < RawLimit THEN n ELSE RawLimit

C14_NonJsonBodyGivesSentinel ==
    fetched # NONE /\ LastFetch.resp # NONE =>
        LET o == The(LastFetch.resp)
        IN  o.status_code = HTTP_OK /\ ~o.body.json =>
                LastFetch.ret = Some([raw |-> Truncated(o.body.len)])

(***************************************************************************)
(* C15: under any interleaving of run_crawl invocations at most one crawl  *)
(* cycle is in flight: no two invocations are at their login or crawl step *)
(* at the same time.  The guard reads crawler_status["running"] at line 86 *)
(* and sets it at line 97, with nothing to make the two one step: two      *)
(* invocations can both read False and both go on.                         *)
(***************************************************************************)
InFlight == {t \in Threads : pc[t] \in {"L100", "L105"}}

C15_AtMostOneCycleInFlight == Cardinality(InFlight) <= 1

(***************************************************************************)
(* C16: when login fails in run_crawl neither crawl_all nor crawl_realtime *)
(* is invoked; once the invocation has returned, last_success is false,    *)
(* error_count is one more than when the cycle began, crawl_count and      *)
(* last_crawl are what they were, and running is false again, so that the  *)
(* guard of the next invocation lets it start.                             *)
(***************************************************************************)
LoginFailed(t) == cycle[t].login = "failed"

C16_LoginFailureAbandonsCycle ==
    \A t \in Threads :
        LoginFailed(t) =>
            /\ cycle[t].did = {"login"}
            /\ pc[t] = "idle" =>
                   LET entry == The(cycle[t].entry)
                   IN  /\ crawler_status.last_success = FALSE
                       /\ crawler_status.error_count = entry.error_count + 1
                       /\ crawler_status.crawl_count = entry.crawl_count
                       /\ crawler_status.last_crawl = entry.last_crawl
                       /\ crawler_status.running = FALSE

\* a cycle that succeeded, then one whose login failed
C16_Witness ==
    /\ pc[1] = "idle"
    /\ LoginFailed(1)
    /\ crawler_status.crawl_count = 1
    /\ crawler_status.last_crawl # NONE
    /\ crawler_status.error_count = 1
    /\ crawler_status.last_success = FALSE

(***************************************************************************)
(* C17: every _save_data(category, name, data) whose removals all succeed  *)
(* leaves at most max_files_per_category timestamped files of that name in *)
(* that directory; the files it removed are all older than the files it    *)
(* kept; and, for a retention count of at least 1, the snapshot it wrote   *)
(* is among the kept ones.  This holds for every save of every run.        *)
(***************************************************************************)
SaveStep == last_save' # NONE /\ <<files, last_save>>' # <<files, last_save>>

RetentionHolds ==
    LET ls == The(last_save')
        written == Snapshot(ls.name, ls.stamp)
        before == Glob(files[ls.category], ls.name) \cup {written}
        after == Glob(files'[ls.category], ls.name)
    IN  ls.failed = {} =>
            /\ Cardinality(after) <= max_files
            /\ after \subseteq before
            /\ \A f \in before \ after : \A g \in after : f.stamp < g.stamp
            /\ max_files >= 1 => written \in after

KeepsRows(file) == file # NONE => file' = file

\* C18: handling a request, whatever its path, method and query parameters,
\* leaves the rows of every table of the store as they were: the S3 object,
\* the files at DB_PATH and in the working directory when they exist, and
\* the ingestion store; a file the request creates is the S3 object's copy
\* or a database without tables.
C18_FacadeIsReadOnly ==
    [][/\ s3_db' = s3_db
       /\ KeepsRows(tmp_db)
       /\ KeepsRows(cwd_db)
       /\ (tmp_db = NONE /\ tmp_db' # NONE) => tmp_db' = s3_db
       /\ (cwd_db = NONE /\ cwd_db' # NONE) => cwd_db' = Some(NoTables)
       /\ db' = db
       /\ committed' = committed]_vars

Asked(prefix) == event # NONE /\ The(event).path.prefix = prefix

C18_Witness ==
    /\ Asked("/api/flights")
    /\ The(event).httpMethod = "GET"
    /\ The(response).statusCode = HTTP_OK
    /\ The(response).body.data.count > 0
    /\ tmp_db = s3_db


ListAsked ==
    /\ event # NONE
    /\ The(event).httpMethod # "OPTIONS"
    /\ The(event).path.prefix \in ListPaths
    /\ The(event).path.rest = <<>>

\* the text of the limit parameter is not a decimal integer
InvalidLimit ==
    LET l == The(event).params.limit
    IN  /\ l # NONE
        /\ ~(l # <<>> /\ AllDigits(l))
        /\ ~(Len(l) > 1 /\ l[1] \in {"-", "+"} /\ AllDigits(Tail(l)))

\* the database at DB_PATH has every table the handlers read
Healthy == tmp_db # NONE /\ \A t \in FacadeTables : The(tmp_db)[t] # NONE

\* the response the same request gets without its limit parameter, with the
\* database at DB_PATH
Defaulted == Route([The(event) EXCEPT !.params.limit = NONE], TRUE).response

\* C19: a request to /api/flights, /api/flights/departures,
\* /api/flights/arrivals, /api/weather or /api/notam whose limit parameter is
\* not a valid integer (limit=abc) gets, from a database that has every
\* table, a success response, the one the endpoint's default limit gives,
\* not an error response.  int() raises a
\* ValueError inside the handler's try, and the answer is a 500 error.
C19_InvalidLimitDefaults ==
    ListAsked /\ InvalidLimit /\ Healthy =>
        /\ The(response).statusCode = HTTP_OK
        /\ The(response).body.status = "success"
        /\ The(response) = Defaulted

BackendErrors == {"OperationalError", "AttributeError", "TypeError"}

\* C20: whenever the backend fails while a request is served (the database
\* unavailable, a table missing, a query or row access raising), the response
\* is the error envelope {status: "error", message} with an error status
\* code, on every endpoint that reads the store, /api/status included.
\* handle_status answers 200 {status: "success"} there.
C20_BackendFailureGivesErrorEnvelope ==
    response # NONE /\ raised \cap BackendErrors # {} =>
        /\ The(response).statusCode >= HTTP_CLIENT_ERROR
        /\ The(response).body.status = "error"
        /\ "message" \in DOMAIN The(response).body


RouteAsked ==
    /\ event # NONE
    /\ The(event).httpMethod # "OPTIONS"
    /\ The(event).path = Path("/api/flights/route", <<>>)

\* a parameter that is absent or empty
Missing(value) == value = NONE \/ value = <<>>

\* no stored flight plan has the callsign in its flight number, nor the
\* registration
NoFlightMatches ==
    LET q == The(event).params
    IN  \A r \in The(The(tmp_db).flight_plans) :
            /\ ~Missing(q.callsign) => ~Like(r.flight_number, q.callsign)
            /\ ~Missing(q.reg) => upper(r.registration) # upper(q.reg)

NullRoute == [source |-> NONE, origin |-> NONE, destination |-> NONE]

\* C21: GET /api/flights/route never answers 404; it answers 400 only when
\* callsign and reg are both missing; and with a callsign and/or reg that
\* matches no stored flight plan it answers 200 with
\* {source: null, origin: null, destination: null}.
C21_RouteWithoutMatchIs200 ==
    RouteAsked =>
        LET q == The(event).params
            r == The(response)
        IN  /\ r.statusCode # HTTP_NOT_FOUND
            /\ r.statusCode = HTTP_BAD_REQUEST => Missing(q.callsign) /\ Missing(q.reg)
            /\ (Healthy /\ ~(Missing(q.callsign) /\ Missing(q.reg)) /\ NoFlightMatches)
                  => r.statusCode = HTTP_OK /\ r.body = NullRoute

C21_Witness ==
    /\ RouteAsked
    /\ Healthy
    /\ The(The(tmp_db).flight_plans) # {}
    /\ ~Missing(The(event).params.callsign)
    /\ NoFlightMatches
    /\ The(response).statusCode = HTTP_OK


\* the rows of a list endpoint's success response
Listed ==
    LET d == The(response).body.data
        at == The(event).path.prefix
    IN  IF at = "/api/flights" THEN d.flights
        ELSE IF at = "/api/flights/departures" THEN d.departures
        ELSE IF at = "/api/flights/arrivals" THEN d.arrivals
        ELSE IF at = "/api/weather" THEN d.weather
        ELSE d.notams

\* the cap of a list endpoint when the limit is omitted
DefaultCap ==
    IF The(event).path.prefix = "/api/weather" THEN DefaultWeatherLimit ELSE DefaultLimit

NewestFirst(rows) ==
    \A i \in 1..Len(rows), j \in 1..Len(rows) :
        i < j => rows[i].created_at >= rows[j].created_at

\* C22: a list endpoint (/api/flights, /api/flights/departures,
\* /api/flights/arrivals, /api/weather, /api/notam) never returns more rows
\* than the caller's integer limit, zero and negative values included, never
\* more than its default cap (100, or 50 for weather) when the limit is
\* omitted, and returns the rows newest first.  A negative limit reaches
\* SQLite as LIMIT -1, which is no limit at all.
C22_ListIsCapped ==
    (ListAsked /\ The(response).statusCode = HTTP_OK) =>
        LET l == The(event).params.limit
            cap == IF l = NONE THEN DefaultCap
                   ELSE IF PyInt(l).val < 0 THEN 0 ELSE PyInt(l).val
        IN  /\ Len(Listed) <= cap
            /\ The(response).body.data.count = Len(Listed)
            /\ NewestFirst(Listed)


(***************************************************************************)
(* The store, once more                                                    *)
(***************************************************************************)
\* a step of the save operation op
Saves(op) == call'.op = op /\ clock' # clock

\* C23: two flight plans saved with the same callsign, departure time and
\* crawl date but different direction tags ("DEP" and "ARR") are kept as two
\* rows: a save_flight_plan leaves every stored row of the other direction
\* as it is.  The UNIQUE constraint of flight_plans has no direction column,
\* and INSERT OR REPLACE deletes the row of the other direction.
C23_DirectionKeepsRowsApart ==
    [][Saves("save_flight_plan") =>
          \A r \in db.flight_plans :
              r.direction # call'.param => r \in db'.flight_plans]_vars


\* a construction of the store has run
Constructs == opened' \in {"ok", "raised"} /\ openVars' # openVars

\* C24: constructing UBIKAISDatabase (_init_database, _create_tables)
\* completes without error on a new and on an already initialised file;
\* afterwards the thirteen tables exist, the store is usable, and the rows
\* already present are unchanged.  The first CREATE INDEX statement is not
\* SQL, so _create_tables raises every time and no store object is returned.
C24_OpeningTheStoreSucceeds ==
    [][Constructs =>
          /\ opened' = "ok"
          /\ schema' = Tables
          /\ db' = db
          /\ committed' = committed]_vars


(***************************************************************************)
(* The query facade: CORS                                                  *)
(***************************************************************************)
\* the four built-in origins and the entries of CORS_ALLOWED_ORIGINS
InAllowList(o) == o \in ALLOWED_ORIGINS \/ <<o>> \in extra_origins(cors_env)

Carried == The(response).headers.AllowOrigin

C26_RowIsUpdatedInPlace ==
    [][\A t \in Tables : \A r \in db[t] :
          \E q \in db'[t] : q.id = r.id /\ q.created_at = r.created_at]_vars


Completes == pc[1] = "L122" /\ pc'[1] = "idle"

\* the invocation is at the guard or at the credential check
AtTheDoor == pc[1] \in {"idle", "L90"}

\* C28: an invocation of run_crawl that passed the guard and the credential
\* check has, when it returns, increased exactly one of crawl_count and
\* error_count by one since it set running, with last_success true exactly
\* when crawl_count is the one; the guard and the credential check change no
\* field of crawler_status, so an invocation they reject changes none.
C28_OneCounterPerCycle ==
    [][/\ AtTheDoor => crawler_status' = crawler_status
       /\ Completes =>
             LET entry == The(cycle[1].entry)
                 crawls == crawler_status'.crawl_count - entry.crawl_count
                 errors == crawler_status'.error_count - entry.error_count
             IN  /\ <<crawls, errors>> \in {<<1, 0>>, <<0, 1>>}
                 /\ crawler_status'.last_success <=> crawls = 1
                 /\ ~crawler_status'.running]_vars

\* a successful cycle has returned after a failed one
C28_Witness ==
    /\ pc[1] = "idle"
    /\ cycle[1].entry # NONE
    /\ crawler_status.crawl_count = 1
    /\ crawler_status.error_count = 1
    /\ crawler_status.last_success


\* crawl_all has returned: its summary is the file on disk
Summarised == results = NONE /\ summary # NONE

\* what the summary is to say of a call by how it ended
Verdict(how) == IF how \in {RAISES, RETURNS_NONE} THEN "failed" ELSE "success"

\* C29: crawl_all calls the crawlers one after the other in the order
\* ubikais, aim, weather, airport; whatever a call raised or returned, the
\* later ones are called, and the summary written lists the four sources in
\* that order, with "failed" for a source exactly when its call raised or
\* returned None and "success" otherwise.
C29_AllSourcesRunAndSummarised ==
    /\ Len(ran) <= Len(crawlers)
    /\ \A i \in 1..Len(ran) : ran[i][1] = crawlers[i]
    /\ results # NONE => Len(The(results)) = Len(ran)
    /\ Summarised =>
           /\ Len(ran) = Len(crawlers)
           /\ The(summary).sources = crawlers
           /\ \A i \in 1..Len(crawlers) :
                  The(summary).status[i] = <<crawlers[i], Verdict(ran[i][2])>>

\* a summary after a failed login, an exception in crawl_aim_korea and two
\* crawlers that returned their data
C29_Witness ==
    /\ Summarised
    /\ ran = <<<<"ubikais", RETURNS_NONE>>, <<"aim", RAISES>>,
               <<"weather", RETURNS_DATA>>, <<"airport", RETURNS_DATA>>>>
    /\ files["weather"] # {}


\* the last call of crawl_all, when this step made it
Called(how) == Len(ran') = Len(ran) + 1 /\ ran'[Len(ran')][2] = how

\* no <name>_latest.json leaves its directory
LatestStays == \A c \in Categories : \A f \in files[c] : f.latest => f \in files'[c]

\* the directory of the category has the latest file of the name and a
\* newest snapshot of the name, and both hold the same data dict
LatestIsNewest(dirs, held, category, name) ==
    /\ Latest(name) \in dirs[category]
    /\ \E f \in Glob(dirs[category], name) :
           /\ \A g \in Glob(dirs[category], name) : g.stamp <= f.stamp
           /\ held[category][f] = held[category][Latest(name)]

\* a crawl_ubikais whose login failed has written nothing
NothingWritten == Called(RETURNS_NONE) => files' = files /\ contents' = contents

\* C30 as stated: the cleanup never deletes a <name>_latest.json; after each
\* _save_data(category, name, data) the latest file of the category and
\* name holds what the newest timestamped snapshot of them holds; a
\* crawl_ubikais whose login fails writes no snapshot and leaves the latest
\* file as it was.
C30_LatestIsNewestSnapshot ==
    [][/\ LatestStays
       /\ Called(RETURNS_DATA) =>
              LET category == ran'[Len(ran')][1]
              IN  LatestIsNewest(files', contents', category, SaveName(category))
       /\ NothingWritten]_vars

\* C30 for a retention count of at least 1: the cleanup never deletes a
\* <name>_latest.json; after each _save_data(category, name, data) under
\* max_files_per_category >= 1 the latest file holds what the newest
\* timestamped snapshot holds; a crawl_ubikais whose login fails writes
\* nothing.
C30_LatestIsNewestKeptSnapshot ==
    [][/\ LatestStays
       /\ Called(RETURNS_DATA) /\ max_files >= 1 =>
              LET category == ran'[Len(ran')][1]
              IN  LatestIsNewest(files', contents', category, SaveName(category))
       /\ NothingWritten]_vars

\* the second round: the login has failed, the files of the first round are
\* as they were; crawl_aim_korea has saved again and the cleanup has removed
\* its first snapshot
C30_Witness ==
    /\ max_files = 1
    /\ wallclock = 1
    /\ ran = <<<<"ubikais", RETURNS_NONE>>, <<"aim", RETURNS_DATA>>>>
    /\ files["ubikais"] = {Snapshot("notam", 0), Latest("notam")}
    /\ contents["ubikais"][Latest("notam")] = DataAt(0)
    /\ files["aim"] = {Snapshot("notam", 1), Latest("notam")}
    /\ last_save # NONE
    /\ The(last_save).removed = {Snapshot("notam", 0)}


====
